---------------------------- MODULE Spec2Model ----------------------------
(***************************************************************************)
(* Astra AI chat front-end: the fallback visualization generator            *)
(* (generateMockVisualization: keyword classifier, template selection and   *)
(* HTML rendering) and the response-cleaning step of generateVisualization. *)
(*                                                                          *)
(* Text is modelled as TLA+ strings, character by character: Len, SubSeq    *)
(* and \o act on strings as on sequences of characters.  The one character  *)
(* the lexer does not accept, the chart emoji U+1F4CA in the <h1> line of   *)
(* the skeleton, is written "(U+1F4CA)"; nor does it accept the grave       *)
(* accent U+0060 of a Markdown fence, which is written "^".                 *)
(***************************************************************************)
EXTENDS Integers, Sequences, FiniteSets, TLC

\* ------------------------------------------------------------------------
\* Bounds of the model
\* ------------------------------------------------------------------------

\* number of words a classified message content is built from
MaxLen == 2
\* number of words the first content of a sequence of calls is built from
MaxRenderLen == 1
\* values the clock (Date.now) takes
MaxClock == 1
\* number of chunks between the lead and the trail of a Gemini response
MaxBody == 3

\* ------------------------------------------------------------------------
\* JavaScript string primitives
\* ------------------------------------------------------------------------

\* String.prototype.toLowerCase on one character (ASCII letters of the model)
UpperToLower ==
    [A |-> "a", B |-> "b", C |-> "c", D |-> "d", E |-> "e", F |-> "f",
     G |-> "g", H |-> "h", I |-> "i", J |-> "j", K |-> "k", L |-> "l",
     M |-> "m", N |-> "n", O |-> "o", P |-> "p", Q |-> "q", R |-> "r",
     S |-> "s", T |-> "t", U |-> "u", V |-> "v", W |-> "w", X |-> "x",
     Y |-> "y", Z |-> "z"]

lowerChar(c) == IF c \in DOMAIN UpperToLower THEN UpperToLower[c] ELSE c

\* String.prototype.toLowerCase: every character mapped, order kept
RECURSIVE toLowerCase(_)
toLowerCase(s) ==
    IF Len(s) = 0 THEN ""
    ELSE IF Len(s) = 1 THEN lowerChar(s)
    ELSE LET m == Len(s) \div 2 IN
         toLowerCase(SubSeq(s, 1, m)) \o toLowerCase(SubSeq(s, m + 1, Len(s)))

\* String.prototype.includes: k occurs in s at some position
includes(s, k) ==
    \E i \in 1..(Len(s) - Len(k) + 1) : SubSeq(s, i, i + Len(k) - 1) = k

\* k is matched at the first position of h
StartsWith(h, k) == Len(h) >= Len(k) /\ SubSeq(h, 1, Len(k)) = k

\* the grave accent, and the Markdown fence of three of them
Backtick == "^"

Fence == Backtick \o Backtick \o Backtick

\* s.replace(/<fence>\n?/g, ''): the string is scanned from the left; at a
\* position where the fence begins, the fence and the line feed after it, if
\* there is one, are dropped and the scan goes on behind them; elsewhere the
\* character is kept.
RECURSIVE replaceFence(_, _)
replaceFence(s, fence) ==
    IF s = "" THEN ""
    ELSE IF StartsWith(s, fence) THEN
        LET rest == SubSeq(s, Len(fence) + 1, Len(s)) IN
        IF StartsWith(rest, "\n")
        THEN replaceFence(SubSeq(rest, 2, Len(rest)), fence)
        ELSE replaceFence(rest, fence)
    ELSE SubSeq(s, 1, 1) \o replaceFence(SubSeq(s, 2, Len(s)), fence)

\* white space and line terminators String.prototype.trim removes
WhiteSpace == {" ", "\n", "\t", "\r", "\f"}

RECURSIVE trimStart(_)
trimStart(s) ==
    IF s # "" /\ SubSeq(s, 1, 1) \in WhiteSpace
    THEN trimStart(SubSeq(s, 2, Len(s)))
    ELSE s

RECURSIVE trimEnd(_)
trimEnd(s) ==
    IF s # "" /\ SubSeq(s, Len(s), Len(s)) \in WhiteSpace
    THEN trimEnd(SubSeq(s, 1, Len(s) - 1))
    ELSE s

trim(s) == trimEnd(trimStart(s))

\* ------------------------------------------------------------------------
\* generateMockVisualization (unnamed/part_001:105-298)
\* ------------------------------------------------------------------------

hasRevenue(lowerContent) ==
    includes(lowerContent, "revenue") \/ includes(lowerContent, "sales")
        \/ includes(lowerContent, "income")

\* the growth test with its last keyword left out
hasGrowth_NoTrend(lowerContent) ==
    includes(lowerContent, "growth") \/ includes(lowerContent, "increase")

hasGrowth(lowerContent) ==
    includes(lowerContent, "growth") \/ includes(lowerContent, "increase")
        \/ includes(lowerContent, "trend")

\* the comparison test with "v" typed for "vs"
hasComparison_LooseV(lowerContent) ==
    includes(lowerContent, "v") \/ includes(lowerContent, "compare")
        \/ includes(lowerContent, "versus")

hasComparison(lowerContent) ==
    includes(lowerContent, "vs") \/ includes(lowerContent, "compare")
        \/ includes(lowerContent, "versus")

hasTime(lowerContent) ==
    includes(lowerContent, "year") \/ includes(lowerContent, "month")
        \/ includes(lowerContent, "quarter")

\* part_001:122-131
chartDataRevenue ==
    "\n" \o
    "        labels: ['Q1 2023', 'Q2 2023', 'Q3 2023', 'Q4 2023', 'Q1 2024'],\n" \o
    "        datasets: [{\n" \o
    "          label: 'Revenue ($M)',\n" \o
    "          data: [12, 19, 25, 32, 45],\n" \o
    "          borderColor: '#FF4500',\n" \o
    "          backgroundColor: 'rgba(255, 69, 0, 0.1)',\n" \o
    "          borderWidth: 3,\n" \o
    "          fill: true\n" \o
    "        }]"

\* part_001:132-144
metricsRevenue ==
    "\n" \o
    "        <div class=\"metric\">\n" \o
    "          <h3>Total Revenue</h3>\n" \o
    "          <p>$133M</p>\n" \o
    "        </div>\n" \o
    "        <div class=\"metric\">\n" \o
    "          <h3>Growth Rate</h3>\n" \o
    "          <p>275%</p>\n" \o
    "        </div>\n" \o
    "        <div class=\"metric\">\n" \o
    "          <h3>Avg. Quarterly</h3>\n" \o
    "          <p>$26.6M</p>\n" \o
    "        </div>"

\* part_001:148-156
chartDataComparison ==
    "\n" \o
    "        labels: ['Product A', 'Product B', 'Product C', 'Product D'],\n" \o
    "        datasets: [{\n" \o
    "          label: 'Performance Score',\n" \o
    "          data: [85, 92, 78, 96],\n" \o
    "          backgroundColor: ['#FF4500', '#FF6B35', '#FF8C42', '#FFAD5A'],\n" \o
    "          borderColor: '#FF4500',\n" \o
    "          borderWidth: 2\n" \o
    "        }]"

\* part_001:157-169
metricsComparison ==
    "\n" \o
    "        <div class=\"metric\">\n" \o
    "          <h3>Best Performer</h3>\n" \o
    "          <p>Product D</p>\n" \o
    "        </div>\n" \o
    "        <div class=\"metric\">\n" \o
    "          <h3>Average Score</h3>\n" \o
    "          <p>87.8</p>\n" \o
    "        </div>\n" \o
    "        <div class=\"metric\">\n" \o
    "          <h3>Improvement</h3>\n" \o
    "          <p>+12%</p>\n" \o
    "        </div>"

\* part_001:173-182
chartDataGrowth ==
    "\n" \o
    "        labels: ['Jan', 'Feb', 'Mar', 'Apr', 'May', 'Jun'],\n" \o
    "        datasets: [{\n" \o
    "          label: 'Growth %',\n" \o
    "          data: [5, 12, 18, 25, 32, 45],\n" \o
    "          borderColor: '#FF4500',\n" \o
    "          backgroundColor: 'rgba(255, 69, 0, 0.2)',\n" \o
    "          borderWidth: 3,\n" \o
    "          fill: true\n" \o
    "        }]"

\* part_001:183-195
metricsGrowth ==
    "\n" \o
    "        <div class=\"metric\">\n" \o
    "          <h3>Peak Growth</h3>\n" \o
    "          <p>45%</p>\n" \o
    "        </div>\n" \o
    "        <div class=\"metric\">\n" \o
    "          <h3>Avg Growth</h3>\n" \o
    "          <p>22.8%</p>\n" \o
    "        </div>\n" \o
    "        <div class=\"metric\">\n" \o
    "          <h3>Trend</h3>\n" \o
    "          <p>Upward</p>\n" \o
    "        </div>"

\* part_001:199-205
chartDataGeneric ==
    "\n" \o
    "        labels: ['Category A', 'Category B', 'Category C', 'Category D'],\n" \o
    "        datasets: [{\n" \o
    "          data: [35, 25, 20, 20],\n" \o
    "          backgroundColor: ['#FF4500', '#FF6B35', '#FF8C42', '#FFAD5A'],\n" \o
    "          borderWidth: 2\n" \o
    "        }]"

\* part_001:206-218
metricsGeneric ==
    "\n" \o
    "        <div class=\"metric\">\n" \o
    "          <h3>Total Items</h3>\n" \o
    "          <p>100</p>\n" \o
    "        </div>\n" \o
    "        <div class=\"metric\">\n" \o
    "          <h3>Categories</h3>\n" \o
    "          <p>4</p>\n" \o
    "        </div>\n" \o
    "        <div class=\"metric\">\n" \o
    "          <h3>Top Category</h3>\n" \o
    "          <p>Category A</p>\n" \o
    "        </div>"

skeleton1 ==
    "<!DOCTYPE html>\n" \o
    "<html lang=\"en\">\n" \o
    "<head>\n" \o
    "    <meta charset=\"UTF-8\">\n" \o
    "    <meta name=\"viewport\" content=\"width=device-width, initial-scale=1.0\">\n" \o
    "    <title>"

skeleton2 ==
    "</title>\n" \o
    "    <script src=\"https://cdn.jsdelivr.net/npm/chart.js\"></script>\n" \o
    "    <style>\n" \o
    "        body { \n" \o
    "            font-family: Arial, sans-serif; \n" \o
    "            margin: 20px; \n" \o
    "            background: #f5f5f5; \n" \o
    "        }\n" \o
    "        .container { \n" \o
    "            max-width: 1200px; \n" \o
    "            margin: 0 auto; \n" \o
    "            background: white; \n" \o
    "            padding: 20px; \n" \o
    "            border-radius: 8px; \n" \o
    "            box-shadow: 0 2px 10px rgba(0,0,0,0.1); \n" \o
    "        }\n" \o
    "        .chart-container {\n" \o
    "            position: relative;\n" \o
    "            height: 400px;\n" \o
    "            margin: 20px 0;\n" \o
    "        }\n" \o
    "        h1 { color: #333; text-align: center; }\n" \o
    "        .metric { \n" \o
    "            display: inline-block; \n" \o
    "            margin: 10px; \n" \o
    "            padding: 15px; \n" \o
    "            background: #FF4500; \n" \o
    "            color: white; \n" \o
    "            border-radius: 8px; \n" \o
    "            text-align: center;\n" \o
    "        }\n" \o
    "        .metric h3 { margin: 0 0 5px 0; font-size: 14px; }\n" \o
    "        .metric p { margin: 0; font-size: 18px; font-weight: bold; }\n" \o
    "    </style>\n" \o
    "</head>\n" \o
    "<body>\n" \o
    "    <div class=\"container\">\n" \o
    "        <h1>(U+1F4CA) "

skeleton3 ==
    "</h1>\n" \o
    "        <div class=\"metrics\">\n" \o
    "            "

skeleton4 ==
    "\n" \o
    "        </div>\n" \o
    "        <div class=\"chart-container\">\n" \o
    "            <canvas id=\"chart\"></canvas>\n" \o
    "        </div>\n" \o
    "    </div>\n" \o
    "    <script>\n" \o
    "        const ctx = document.getElementById('chart').getContext('2d');\n" \o
    "        new Chart(ctx, {\n" \o
    "            type: '"

skeleton5 ==
    "',\n" \o
    "            data: {\n" \o
    "                "

skeleton6 ==
    "\n" \o
    "            },\n" \o
    "            options: {\n" \o
    "                responsive: true,\n" \o
    "                maintainAspectRatio: false,\n" \o
    "                plugins: {\n" \o
    "                    legend: {\n" \o
    "                        position: 'top',\n" \o
    "                    },\n" \o
    "                    title: {\n" \o
    "                        display: true,\n" \o
    "                        text: '"

skeleton7 ==
    "'\n" \o
    "                    }\n" \o
    "                }\n" \o
    "            }\n" \o
    "        });\n" \o
    "    </script>\n" \o
    "</body>\n" \o
    "</html>"

\* The values the four branches of lines 119-219 give the locals chartType,
\* title, chartData and metrics.  The field bucket names the branch.
LocalsRevenue ==
    [bucket |-> "revenue-trend", chartType |-> "line",
     title |-> "Revenue Growth Analysis",
     chartData |-> chartDataRevenue, metrics |-> metricsRevenue]

LocalsComparison ==
    [bucket |-> "comparison", chartType |-> "bar",
     title |-> "Comparative Analysis",
     chartData |-> chartDataComparison, metrics |-> metricsComparison]

LocalsGrowth ==
    [bucket |-> "growth-trend", chartType |-> "line",
     title |-> "Growth Trend Analysis",
     chartData |-> chartDataGrowth, metrics |-> metricsGrowth]

\* the last branch with a metrics literal cut short after its first line
LocalsGeneric_Garbled ==
    [bucket |-> "generic", chartType |-> "doughnut",
     title |-> "Data Overview",
     chartData |-> chartDataGeneric,
     metrics |-> "\n        <div class=\"metric\">\n        }]"]

LocalsGeneric ==
    [bucket |-> "generic", chartType |-> "doughnut",
     title |-> "Data Overview",
     chartData |-> chartDataGeneric, metrics |-> metricsGeneric]

\* the locals as initialised in lines 114-117, before any branch assigns them
LocalsDefault ==
    [bucket |-> "none", chartType |-> "bar", title |-> "Data Analysis",
     chartData |-> "", metrics |-> ""]

\* the if-chain without its final else: the initial values stay
MockLocals_NoElse(content) ==
    LET lowerContent == toLowerCase(content) IN
    IF hasRevenue(lowerContent) /\ hasTime(lowerContent) THEN LocalsRevenue
    ELSE IF hasComparison(lowerContent) THEN LocalsComparison
    ELSE IF hasGrowth(lowerContent) THEN LocalsGrowth
    ELSE LocalsDefault

\* the first test without its time half
MockLocals_RevenueOnly(content) ==
    LET lowerContent == toLowerCase(content) IN
    IF hasRevenue(lowerContent) THEN LocalsRevenue
    ELSE IF hasComparison(lowerContent) THEN LocalsComparison
    ELSE IF hasGrowth(lowerContent) THEN LocalsGrowth
    ELSE LocalsGeneric

\* the growth test moved before the comparison test
MockLocals_GrowthFirst(content) ==
    LET lowerContent == toLowerCase(content) IN
    IF hasRevenue(lowerContent) /\ hasTime(lowerContent) THEN LocalsRevenue
    ELSE IF hasGrowth(lowerContent) THEN LocalsGrowth
    ELSE IF hasComparison(lowerContent) THEN LocalsComparison
    ELSE LocalsGeneric

\* The locals after the if-chain of lines 119-219
MockLocals(content) ==
    LET lowerContent == toLowerCase(content) IN
    IF hasRevenue(lowerContent) /\ hasTime(lowerContent) THEN LocalsRevenue
    ELSE IF hasComparison(lowerContent) THEN LocalsComparison
    ELSE IF hasGrowth(lowerContent) THEN LocalsGrowth
    ELSE LocalsGeneric

\* The template literal of lines 221-294 with its six interpolations
htmlTemplate(l) ==
    skeleton1 \o l.title \o skeleton2 \o l.title \o skeleton3 \o l.metrics
        \o skeleton4 \o l.chartType \o skeleton5 \o l.chartData
        \o skeleton6 \o l.title \o skeleton7

\* a generator that shows the message content in the title
generateMockVisualization_EchoContent(content) ==
    LET l == MockLocals(content) IN
    htmlTemplate([l EXCEPT !.title = l.title \o ": " \o content])

\* a generator whose template literal ends before the closing tags
generateMockVisualization_Truncated(content) ==
    LET l == MockLocals(content) IN
    skeleton1 \o l.title \o skeleton2 \o l.title \o skeleton3 \o l.metrics
        \o skeleton4 \o l.chartType \o skeleton5 \o l.chartData
        \o skeleton6 \o l.title

generateMockVisualization(content) == htmlTemplate(MockLocals(content))

\* ------------------------------------------------------------------------
\* generateVisualization (src/components/VisualizationPage.tsx:18-143)
\* ------------------------------------------------------------------------

\* a clean-up that strips the fences followed by html only
cleanUp_HtmlFenceOnly(text) == trim(replaceFence(text, Fence \o "html"))

\* line 101: htmlContent.replace(/<fence>html\n?/g, '')
\*                      .replace(/<fence>\n?/g, '').trim()
cleanUp(text) ==
    trim(replaceFence(replaceFence(text, Fence \o "html"), Fence))

\* the text of the wrapper (lines 105-133) before its interpolation
wrapperHead ==
    "<!DOCTYPE html>\n" \o
    "<html lang=\"en\">\n" \o
    "<head>\n" \o
    "    <meta charset=\"UTF-8\">\n" \o
    "    <meta name=\"viewport\" content=\"width=device-width, initial-scale=1.0\">\n" \o
    "    <title>RocketHub Data Visualization</title>\n" \o
    "    <script src=\"https://cdn.jsdelivr.net/npm/chart.js\"></script>\n" \o
    "    <style>\n" \o
    "        body { \n" \o
    "            font-family: Arial, sans-serif; \n" \o
    "            margin: 20px; \n" \o
    "            background: #f5f5f5; \n" \o
    "        }\n" \o
    "        .container { \n" \o
    "            max-width: 1200px; \n" \o
    "            margin: 0 auto; \n" \o
    "            background: white; \n" \o
    "            padding: 20px; \n" \o
    "            border-radius: 8px; \n" \o
    "            box-shadow: 0 2px 10px rgba(0,0,0,0.1); \n" \o
    "        }\n" \o
    "    </style>\n" \o
    "</head>\n" \o
    "<body>\n" \o
    "    <div class=\"container\">\n" \o
    "        "

\* the text of the wrapper after its interpolation
wrapperTail ==
    "\n" \o
    "    </div>\n" \o
    "</body>\n" \o
    "</html>"

\* a test that wraps a text lacking either of the two marks
ensureDocument_Or(text) ==
    IF ~includes(text, "<!DOCTYPE html>") \/ ~includes(text, "<html")
    THEN wrapperHead \o text \o wrapperTail
    ELSE text

\* lines 104-134: a text with neither a doctype nor an <html tag is put into
\* the wrapper document
ensureDocument(text) ==
    IF ~includes(text, "<!DOCTYPE html>") /\ ~includes(text, "<html")
    THEN wrapperHead \o text \o wrapperTail
    ELSE text

\* the message of the Error each failing step throws
ErrorMessage ==
    [no_key |-> "Gemini API key not found. Please check your environment variables.",
     fetch_failed |-> "Failed to fetch",
     http_error |-> "Gemini API error: 500 - ",
     no_content |-> "Invalid response from Gemini API - no content generated"]

\* ------------------------------------------------------------------------
\* Inputs
\* ------------------------------------------------------------------------

\* Pieces of message text: every keyword of the four families in some
\* letter case, "V" and "s" (which only together spell a keyword), a blank,
\* and two amounts.
Words ==
    {"Revenue", "SALES $12M", "income", "year", "Month", "quarter",
     "V", "s", "compare", "versus", "growth", "Increase to $45M", "trend",
     " "}

\* every concatenation of at most n words
RECURSIVE Contents(_)
Contents(n) ==
    IF n = 0 THEN {""}
    ELSE LET S == Contents(n - 1) IN S \cup {s \o w : s \in S, w \in Words}

\* the inputs the specification works through by name
SpecExamples ==
    {"",
     "Q3 revenue grew this quarter",
     "Product A vs Product B performance",
     "steady growth in adoption",
     "Revenue increased from $12M to $45M over five quarters"}

\* message contents of a later call
RecallInputs ==
    SpecExamples \cup {"Compare monthly sales versus income trend"}

\* ------------------------------------------------------------------------
\* State
\* ------------------------------------------------------------------------

VARIABLES
    content,        \* the argument of the current call of generateMockVisualization
    pc,             \* "ready": the call is about to run, "done": it returned
    locals,         \* chartType, title, chartData, metrics of the call that returned
    html,           \* the string the call returned
    prevContent,    \* argument of the call before
    prevHtml,       \* what the call before returned
    now,            \* Date.now()
    calledAt,       \* the time of the current call
    prevCalledAt,   \* the time of the call before
    response,       \* data.candidates[0].content.parts[0].text of the Gemini reply
    gvpc,           \* generateVisualization: "request", "returned", "thrown"
    gvError,        \* message of the Error generateVisualization threw
    cleaned,        \* htmlContent after the clean-up of line 101
    htmlContent,    \* the string generateVisualization returns
    embedded,       \* the VisualizationPage of part_005: its state and position
    chat,           \* the state of useChat in the web App, and its position
    messageInput,   \* the message state of MessageInput
    requests,       \* the webhook requests in flight
    storage,        \* sessionStorage
    location,       \* the location of the router: its pathname and state
    page,           \* the state of the web VisualizationPage
    generations,    \* the calls of generateVisualization under way
    retryTimers,    \* the timers handleRetry of the page has set
    mobile,         \* the state of the mobile App, and its position
    asyncStorage,   \* AsyncStorage of the device
    asyncOps,       \* the calls of AsyncStorage under way
    gemini          \* a call of a function of utils/geminiVisualization.ts

mockVars ==
    <<content, pc, locals, html, prevContent, prevHtml, now, calledAt,
      prevCalledAt>>
cleanVars == <<response, gvpc, gvError, cleaned, htmlContent>>
\* the state of the application around the two generators
chatVars == <<chat, messageInput, requests, storage>>
pageVars == <<location, page, generations, retryTimers>>
mobileVars == <<mobile, asyncStorage, asyncOps>>
appVars == <<embedded, chatVars, pageVars, mobileVars, gemini>>
vars == <<mockVars, cleanVars, appVars>>

NoLocals ==
    [bucket |-> "none", chartType |-> "", title |-> "", chartData |-> "",
     metrics |-> ""]

Buckets == {"revenue-trend", "comparison", "growth-trend", "generic"}

\* ------------------------------------------------------------------------
\* The fallback generator called on message contents
\* ------------------------------------------------------------------------

\* everything but the content of the first call
\* the value null of a state of type string | null; a string m is {m}
null == {}

\* the VisualizationPage of part_005 before it is mounted (lines 959-963)
EmbeddedUnmounted ==
    [pc |-> "unmounted", messageContent |-> "", apiKey |-> "",
     isLoading |-> TRUE, error |-> null, visualizationHTML |-> "",
     load |-> "none", api |-> "none"]

\* a string m as a value of type string | null
Some(m) == {m}

\* the string held by a non-null value of type string | null
the(o) == CHOOSE m \in o : TRUE

\* App.tsx:16-19
WEBHOOK_URL ==
    "https://healthrocket.app.n8n.cloud/webhook/8ec404be-7f51-47c8-8faf-0d139bd4c5e9/chat"
STORAGE_KEY == "astra-chat-messages"
VISUALIZATIONS_KEY == "astra-visualizations"
VISUALIZATION_CACHE_KEY == "astra-visualization-cache"

StorageKeys == {STORAGE_KEY, VISUALIZATIONS_KEY, VISUALIZATION_CACHE_KEY}

\* a sessionStorage of a session that stored nothing: getItem gives null
EmptyStorage == [k \in StorageKeys |-> null]

\* App.tsx:23-28: the state of useChat at its first render. A Set is the
\* sequence of its elements and a Map the sequence of its entries, both in
\* insertion order; pending holds the state updates the load effect asked
\* for, which the next render applies
ChatInitial ==
    [pc |-> "unmounted",
     messages |-> <<>>, isLoading |-> FALSE, error |-> null,
     lastUserMessage |-> "",
     visualizedMessages |-> <<>>, visualizationCache |-> <<>>,
     pending |-> EmptyStorage]

\* the location of the chat: "/" and no state, so that every field read
\* from location.state || {} is undefined (null here)
ChatLocation ==
    [pathname |-> "/",
     state |-> [messageContent |-> null, visualizationType |-> null,
                cachedVisualization |-> null, messageId |-> null]]

\* VisualizationPage.tsx:12-14: the state of the page at its first render
PageInitial ==
    [mounted |-> TRUE, isLoading |-> TRUE, error |-> null,
     visualizationHtml |-> ""]

\* the page while the route does not show it
PageUnmounted == [PageInitial EXCEPT !.mounted = FALSE]

\* no function of utils/geminiVisualization.ts has been called
GeminiIdle ==
    [call |-> "none", pc |-> "idle", apiKey |-> "", content |-> "",
     fetches |-> 0, reply |-> null, outcome |-> null]

\* astra-mobile/App.tsx:34-47: the state of the mobile App at its first
\* render; load is the place of loadStoredData and saved what its reads gave
MobileInitial ==
    [pc |-> "unmounted", load |-> "idle", saved |-> EmptyStorage,
     messages |-> <<>>, inputText |-> "", isLoading |-> FALSE,
     error |-> null, lastUserMessage |-> "",
     visualizedMessages |-> <<>>, visualizationCache |-> <<>>,
     showVisualizationModal |-> FALSE, currentVisualization |-> "",
     isGeneratingVisualization |-> FALSE, visualizationError |-> null,
     requests |-> <<>>, timers |-> <<>>]

\* no component of the application is mounted
AppIdle ==
    /\ mobile = MobileInitial
    /\ asyncStorage = EmptyStorage
    /\ asyncOps = <<>>
    /\ gemini = GeminiIdle
    /\ location = ChatLocation
    /\ page = PageUnmounted
    /\ generations = <<>>
    /\ retryTimers = <<>>
    /\ embedded = EmbeddedUnmounted
    /\ chat = ChatInitial
    /\ messageInput = ""
    /\ requests = <<>>
    /\ storage = EmptyStorage

InitRest ==
    /\ AppIdle
    /\ pc = "ready"
    /\ locals = NoLocals
    /\ html = ""
    /\ prevContent = ""
    /\ prevHtml = ""
    /\ now = 0
    /\ calledAt = 0
    /\ prevCalledAt = 0
    /\ response = ""
    /\ gvpc = "idle"
    /\ gvError = ""
    /\ cleaned = ""
    /\ htmlContent = ""

\* one call on each content
InitMock ==
    /\ content \in Contents(MaxLen) \cup RecallInputs
    /\ InitRest

\* a sequence of calls
InitRender ==
    /\ content \in Contents(MaxRenderLen) \cup RecallInputs
    /\ InitRest

\* a call that writes the time of the call into the document
CallMock_Timestamped ==
    /\ pc = "ready"
    /\ locals' = MockLocals(content)
    /\ html' = generateMockVisualization(content)
                 \o "<!-- generated at " \o ToString(now) \o " -->"
    /\ calledAt' = now
    /\ pc' = "done"
    /\ UNCHANGED <<content, prevContent, prevHtml, prevCalledAt, now, cleanVars, appVars>>

\* one call of generateMockVisualization(content)
CallMock ==
    /\ pc = "ready"
    /\ locals' = MockLocals(content)
    /\ html' = generateMockVisualization(content)
    /\ calledAt' = now
    /\ pc' = "done"
    /\ UNCHANGED <<content, prevContent, prevHtml, prevCalledAt, now, cleanVars, appVars>>

\* the caller comes back with the same or another message content
NextCall ==
    /\ pc = "done"
    /\ \E c \in RecallInputs \cup {content} :
        /\ content' = c
        /\ prevContent' = content
        /\ prevHtml' = html
        /\ prevCalledAt' = calledAt
        /\ pc' = "ready"
        /\ locals' = NoLocals
        /\ html' = ""
    /\ UNCHANGED <<now, calledAt, cleanVars, appVars>>

\* time passes
Tick ==
    /\ now < MaxClock
    /\ now' = now + 1
    /\ UNCHANGED <<content, pc, locals, html, prevContent, prevHtml, calledAt,
                   prevCalledAt, cleanVars, appVars>>

NextMock == CallMock

SpecMock == InitMock /\ [][NextMock]_vars

NextRender == CallMock \/ NextCall \/ Tick

SpecRender == InitRender /\ [][NextRender]_vars

\* ------------------------------------------------------------------------
\* Vocabulary of the properties
\* ------------------------------------------------------------------------

EndsWith(h, k) ==
    Len(h) >= Len(k) /\ SubSeq(h, Len(h) - Len(k) + 1, Len(h)) = k

RevenueFamily == {"revenue", "sales", "income"}
TimeFamily == {"year", "month", "quarter"}
ComparisonFamily == {"vs", "compare", "versus"}
GrowthFamily == {"growth", "increase", "trend"}

\* keyword k occurs in s at some position, letter case of s ignored
OccursAnyCase(k, s) ==
    \E i \in 1..Len(s) :
        /\ i + Len(k) - 1 <= Len(s)
        /\ \A j \in 1..Len(k) :
            lowerChar(SubSeq(s, i + j - 1, i + j - 1)) = SubSeq(k, j, j)

HasAny(family, s) == \E k \in family : OccursAnyCase(k, s)

RevenueTrendCondition(s) == HasAny(RevenueFamily, s) /\ HasAny(TimeFamily, s)

BucketTitle ==
    [b \in Buckets |->
        CASE b = "revenue-trend" -> "Revenue Growth Analysis"
          [] b = "comparison" -> "Comparative Analysis"
          [] b = "growth-trend" -> "Growth Trend Analysis"
          [] b = "generic" -> "Data Overview"]

\* the <title> element of document h holds the text t
HasTitle(h, t) ==
    LET p == skeleton1 \o t \o "</title>" IN
    Len(h) >= Len(p) /\ SubSeq(h, 1, Len(p)) = p

\* C1: every call of the classifier returns, and the document it returns is
\* that of exactly one of the four buckets, the one whose branch ran.
C1_ExactlyOneBucket ==
    /\ pc = "ready" => MockLocals(content).bucket \in Buckets
    /\ pc = "done" =>
        /\ locals.bucket \in Buckets
        /\ {b \in Buckets : HasTitle(html, BucketTitle[b])} = {locals.bucket}

C1_Witness ==
    /\ pc = "done"
    /\ content = "SALES $12Myear"
    /\ locals.bucket = "revenue-trend"
    /\ HasTitle(html, "Revenue Growth Analysis")

\* C2: the bucket is revenue-trend exactly when the content holds a revenue
\* keyword and a time keyword, whatever other keywords it holds.
C2_RevenueTrendIff ==
    pc = "done" =>
        (locals.bucket = "revenue-trend" <=> RevenueTrendCondition(content))

C2_Witness ==
    /\ pc = "done"
    /\ locals.bucket = "revenue-trend"
    /\ HasAny(ComparisonFamily, content)
    /\ HasAny(GrowthFamily, content)

\* C3: without the revenue-trend condition, a comparison keyword gives the
\* comparison bucket, also when a growth keyword is present.
C3_ComparisonOutranksGrowth ==
    (pc = "done" /\ ~RevenueTrendCondition(content)
        /\ HasAny(ComparisonFamily, content))
    => locals.bucket = "comparison"

C3_Witness ==
    /\ pc = "done"
    /\ ~RevenueTrendCondition(content)
    /\ HasAny(ComparisonFamily, content)
    /\ HasAny(GrowthFamily, content)
    /\ locals.bucket = "comparison"

\* C4: the bucket is growth-trend exactly when the revenue-trend condition
\* fails, no comparison keyword is present and a growth keyword is present.
C4_GrowthTrendIff ==
    pc = "done" =>
        (locals.bucket = "growth-trend" <=>
            /\ ~RevenueTrendCondition(content)
            /\ ~HasAny(ComparisonFamily, content)
            /\ HasAny(GrowthFamily, content))

C4_Witness ==
    /\ pc = "done"
    /\ content = "steady growth in adoption"
    /\ locals.bucket = "growth-trend"

\* C5: a content with no comparison keyword, no growth keyword and not both
\* a revenue and a time keyword (the empty string among them) gets the
\* generic bucket: the doughnut chart titled Data Overview.
C5_GenericDefault ==
    (pc = "done" /\ ~RevenueTrendCondition(content)
        /\ ~HasAny(ComparisonFamily, content)
        /\ ~HasAny(GrowthFamily, content))
    => /\ locals.bucket = "generic"
       /\ locals.chartType = "doughnut"
       /\ HasTitle(html, "Data Overview")

C5_Witness ==
    /\ pc = "done"
    /\ content = ""
    /\ locals.bucket = "generic"
    /\ HasTitle(html, "Data Overview")

\* ------------------------------------------------------------------------
\* Properties of the rendered document
\* ------------------------------------------------------------------------

\* the positions at which k occurs in h
Positions(h, k) ==
    {i \in 1..(Len(h) - Len(k) + 1) : SubSeq(h, i, i + Len(k) - 1) = k}

Count(h, k) == Cardinality(Positions(h, k))

\* the bucket the specification assigns to a content
SpecBucket(s) ==
    IF RevenueTrendCondition(s) THEN "revenue-trend"
    ELSE IF HasAny(ComparisonFamily, s) THEN "comparison"
    ELSE IF HasAny(GrowthFamily, s) THEN "growth-trend"
    ELSE "generic"

\* the positions of h at which a tag opens
TagStarts(h) == {i \in 1..Len(h) : SubSeq(h, i, i) = "<"}

\* the positions among cand at which k occurs in h
PositionsAmong(h, k, cand) ==
    {i \in cand : i + Len(k) - 1 <= Len(h) /\ SubSeq(h, i, i + Len(k) - 1) = k}

\* C6: the returned document begins with the doctype and ends with </html>;
\* doctype, <html, <body>, </body> and </html> occur once each, in this
\* order, whatever the template values interpolated.
C6_CompleteDocument ==
    pc = "done" =>
        LET lt == TagStarts(html)
            doctype == PositionsAmong(html, "<!DOCTYPE html>", lt)
            open == PositionsAmong(html, "<html", lt)
            body == PositionsAmong(html, "<body>", lt)
            endbody == PositionsAmong(html, "</body>", lt)
            close == PositionsAmong(html, "</html>", lt)
        IN  /\ StartsWith(html, "<!DOCTYPE html>")
            /\ EndsWith(html, "</html>")
            /\ doctype = {1}
            /\ close = {Len(html) - 6}
            /\ Cardinality(open) = 1
            /\ Cardinality(body) = 1
            /\ Cardinality(endbody) = 1
            /\ \A i \in open : \A j \in body : \A k \in endbody :
                    1 < i /\ i < j /\ j < k /\ k < Len(html) - 6

C6_Witness ==
    /\ pc = "done"
    /\ locals.bucket = "comparison"
    /\ StartsWith(html, "<!DOCTYPE html>")
    /\ EndsWith(html, "</html>")

C8_DependsOnBucketOnly ==
    pc = "done" =>
        /\ (prevHtml # "" /\ SpecBucket(content) = SpecBucket(prevContent))
            => html = prevHtml
        /\ SpecBucket(content) = "revenue-trend" =>
            /\ Count(html,
                "labels: ['Q1 2023', 'Q2 2023', 'Q3 2023', 'Q4 2023', 'Q1 2024']") = 1
            /\ Count(html, "data: [12, 19, 25, 32, 45]") = 1

C8_Witness ==
    /\ pc = "done"
    /\ content = "Revenue increased from $12M to $45M over five quarters"
    /\ prevContent = "Q3 revenue grew this quarter"
    /\ html = prevHtml
    /\ Count(html, "data: [12, 19, 25, 32, 45]") = 1

ChartKind ==
    [b \in Buckets |->
        CASE b = "revenue-trend" -> "line"
          [] b = "comparison" -> "bar"
          [] b = "growth-trend" -> "line"
          [] b = "generic" -> "doughnut"]

\* C9: the chart kind is line, bar, line, doughnut for revenue-trend,
\* comparison, growth-trend, generic, and the metrics panel of the document
\* holds exactly 3 captions.
C9_TemplateLookup ==
    pc = "done" =>
        /\ locals.chartType = ChartKind[SpecBucket(content)]
        /\ Count(html, "type: '" \o ChartKind[SpecBucket(content)] \o "',") = 1
        /\ Count(locals.metrics, "<h3>") = 3
        /\ LET lt == TagStarts(html) IN
            /\ Cardinality(PositionsAmong(html, "<h3>", lt)) = 3
            /\ Cardinality(PositionsAmong(html, "</h3>", lt)) = 3
            /\ Cardinality(PositionsAmong(html, "<div class=\"metric\">", lt)) = 3

C9_Witness ==
    /\ pc = "done"
    /\ locals.bucket = "generic"
    /\ locals.chartType = "doughnut"
    /\ Count(locals.metrics, "<h3>") = 3

\* ------------------------------------------------------------------------
\* One call of generateVisualization
\* ------------------------------------------------------------------------

\* texts a reply begins with, is made of, and ends with
Leads ==
    {"", Fence \o "html\n", Fence \o "html", Fence \o "\n",
     Backtick \o Backtick, " \n", "<!DOCTYPE html>\n"}

Chunks == {"<html>", "</html>", "...", Backtick, Fence, "\n", "html"}

Trails ==
    {"", "\n" \o Fence, Fence, "\n" \o Fence \o "\n", Backtick, "\n"}

\* every concatenation of at most n chunks
RECURSIVE Bodies(_)
Bodies(n) ==
    IF n = 0 THEN {""}
    ELSE LET S == Bodies(n - 1) IN S \cup {s \o c : s \in S, c \in Chunks}

Responses == {l \o b \o t : l \in Leads, b \in Bodies(MaxBody), t \in Trails}

InitClean ==
    /\ AppIdle
    /\ response = ""
    /\ gvpc = "request"
    /\ gvError = ""
    /\ cleaned = ""
    /\ htmlContent = ""
    /\ content = ""
    /\ pc = "idle"
    /\ locals = NoLocals
    /\ html = ""
    /\ prevContent = ""
    /\ prevHtml = ""
    /\ now = 0
    /\ calledAt = 0
    /\ prevCalledAt = 0

\* lines 28-30, 45-95, 139-142: the key is missing, fetch rejects, the status
\* is not ok, or the reply has no candidate content; the Error is thrown to
\* the caller
GenerateVisualizationThrows ==
    /\ gvpc = "request"
    /\ \E outcome \in DOMAIN ErrorMessage :
        gvError' = ErrorMessage[outcome]
    /\ gvpc' = "thrown"
    /\ UNCHANGED <<response, cleaned, htmlContent, mockVars, appVars>>

\* lines 97-137: the reply carries the text r
GenerateVisualizationReturns ==
    /\ gvpc = "request"
    /\ \E r \in Responses :
        /\ response' = r
        /\ cleaned' = cleanUp(r)
        /\ htmlContent' = ensureDocument(cleanUp(r))
    /\ gvpc' = "returned"
    /\ UNCHANGED <<gvError, mockVars, appVars>>

NextClean == GenerateVisualizationThrows \/ GenerateVisualizationReturns

SpecClean == InitClean /\ [][NextClean]_vars

\* ------------------------------------------------------------------------
\* Properties of the clean-up
\* ------------------------------------------------------------------------

Occurs(k, s) == \E i \in 1..(Len(s) - Len(k) + 1) : SubSeq(s, i, i + Len(k) - 1) = k

\* r is a fence, html, a line feed, a text <html>...</html>, a line feed
\* and a fence
IsFenced(r) ==
    /\ Len(r) >= 25
    /\ StartsWith(r, Fence \o "html\n<html>")
    /\ EndsWith(r, "</html>\n" \o Fence)

\* the text <html>...</html> of a fenced reply
FencedBody(r) == SubSeq(r, 9, Len(r) - 4)

\* C10 as claimed: every fenced reply is cleaned to exactly the text between
\* its fences, and no cleaned reply holds a triple backtick.
C10_AnyFencedBody ==
    gvpc = "returned" =>
        /\ IsFenced(response) => cleaned = FencedBody(response)
        /\ ~Occurs(Fence, cleaned)

\* C10: a fenced reply whose text <html>...</html> holds no triple backtick
\* of its own is cleaned to exactly that text, and no cleaned reply holds a
\* triple backtick.
C10_FenceStripped ==
    gvpc = "returned" =>
        /\ (IsFenced(response) /\ ~Occurs(Fence, FencedBody(response)))
            => cleaned = FencedBody(response)
        /\ ~Occurs(Fence, cleaned)

C10_Witness ==
    /\ gvpc = "returned"
    /\ response = Fence \o "html\n<html>...</html>\n" \o Fence
    /\ cleaned = "<html>...</html>"


\* ------------------------------------------------------------------------
\* Properties of the wrapping
\* ------------------------------------------------------------------------

\* the wrapper document around a text
Wrapped(text) == wrapperHead \o text \o wrapperTail

fallbackHead ==
    "<!DOCTYPE html>\n" \o
    "<html lang=\"en\">\n" \o
    "<head>\n" \o
    "    <meta charset=\"UTF-8\">\n" \o
    "    <title>Content Summary</title>\n" \o
    "    <style>\n" \o
    "        * { margin: 0; padding: 0; box-sizing: border-box; }\n" \o
    "        body {\n" \o
    "            background: linear-gradient(135deg, #1a1a2e 0%, #16213e 100%);\n" \o
    "            color: white;\n" \o
    "            font-family: -apple-system, BlinkMacSystemFont, 'Segoe UI', Roboto, sans-serif;\n" \o
    "            min-height: 100vh;\n" \o
    "            padding: 20px;\n" \o
    "        }\n" \o
    "        .container { max-width: 1200px; margin: 0 auto; }\n" \o
    "        .header {\n" \o
    "            text-align: center;\n" \o
    "            margin-bottom: 40px;\n" \o
    "            padding: 30px 0;\n" \o
    "            border-bottom: 2px solid #FF4500;\n" \o
    "        }\n" \o
    "        .header h1 {\n" \o
    "            font-size: 2.5rem;\n" \o
    "            margin-bottom: 10px;\n" \o
    "            background: linear-gradient(45deg, #FF4500, #FF6B35);\n" \o
    "            -webkit-background-clip: text;\n" \o
    "            -webkit-text-fill-color: transparent;\n" \o
    "            background-clip: text;\n" \o
    "        }\n" \o
    "        .content-card {\n" \o
    "            background: rgba(255, 255, 255, 0.1);\n" \o
    "            border-radius: 15px;\n" \o
    "            padding: 30px;\n" \o
    "            margin-bottom: 30px;\n" \o
    "            border: 1px solid rgba(255, 69, 0, 0.3);\n" \o
    "            backdrop-filter: blur(10px);\n" \o
    "        }\n" \o
    "        .content-text {\n" \o
    "            line-height: 1.8;\n" \o
    "            font-size: 1.1rem;\n" \o
    "            white-space: pre-wrap;\n" \o
    "            word-wrap: break-word;\n" \o
    "        }\n" \o
    "        .stats {\n" \o
    "            display: grid;\n" \o
    "            grid-template-columns: repeat(auto-fit, minmax(200px, 1fr));\n" \o
    "            gap: 20px;\n" \o
    "            margin-top: 30px;\n" \o
    "        }\n" \o
    "        .stat-card {\n" \o
    "            background: rgba(255, 69, 0, 0.1);\n" \o
    "            border: 1px solid #FF4500;\n" \o
    "            border-radius: 10px;\n" \o
    "            padding: 20px;\n" \o
    "            text-align: center;\n" \o
    "        }\n" \o
    "        .stat-number {\n" \o
    "            font-size: 2rem;\n" \o
    "            font-weight: bold;\n" \o
    "            color: #FF4500;\n" \o
    "            margin-bottom: 5px;\n" \o
    "        }\n" \o
    "        .stat-label {\n" \o
    "            font-size: 0.9rem;\n" \o
    "            opacity: 0.8;\n" \o
    "        }\n" \o
    "    </style>\n" \o
    "</head>\n" \o
    "<body>\n" \o
    "    <div class=\"container\">\n" \o
    "        <div class=\"header\">\n" \o
    "            <h1>(U+1F680) Content Summary</h1>\n" \o
    "            <p>RocketHub Intelligence Dashboard</p>\n" \o
    "        </div>\n" \o
    "        \n" \o
    "        <div class=\"content-card\">\n" \o
    "            <h2 style=\"color: #FF4500; margin-bottom: 20px;\">(U+1F4C4) Full Content</h2>\n" \o
    "            <div class=\"content-text\">"

\* part_005:1110-1115, the text of the fallback document between its interpolations
fallbackAfterContent ==
    "</div>\n" \o
    "        </div>\n" \o
    "        \n" \o
    "        <div class=\"stats\">\n" \o
    "            <div class=\"stat-card\">\n" \o
    "                <div class=\"stat-number\">"

\* part_005:1115-1119, the text of the fallback document between its interpolations
fallbackAfterWords ==
    "</div>\n" \o
    "                <div class=\"stat-label\">Words</div>\n" \o
    "            </div>\n" \o
    "            <div class=\"stat-card\">\n" \o
    "                <div class=\"stat-number\">"

\* part_005:1119-1123, the text of the fallback document between its interpolations
fallbackAfterLines ==
    "</div>\n" \o
    "                <div class=\"stat-label\">Lines</div>\n" \o
    "            </div>\n" \o
    "            <div class=\"stat-card\">\n" \o
    "                <div class=\"stat-number\">"

\* part_005:1123-1129, the text of the fallback document between its interpolations
fallbackTail ==
    "</div>\n" \o
    "                <div class=\"stat-label\">Characters</div>\n" \o
    "            </div>\n" \o
    "        </div>\n" \o
    "    </div>\n" \o
    "</body>\n" \o
    "</html>"

\* part_005:1110, content.replace(/</g, '&lt;').replace(/>/g, '&gt;')
RECURSIVE escapeAngles(_)
escapeAngles(s) ==
    IF s = "" THEN ""
    ELSE LET c == SubSeq(s, 1, 1)
         IN  (IF c = "<" THEN "&lt;" ELSE IF c = ">" THEN "&gt;" ELSE c)
                 \o escapeAngles(Tail(s))

\* the pieces <<a, b>> of s.split(sep) for a one-character sep: s[a..b] lies
\* between two separators (or an end of s) and holds none
splitPieces(s, seps) ==
    {p \in (1..(Len(s) + 1)) \X (0..Len(s)) :
        /\ p[1] <= p[2] + 1
        /\ p[1] = 1 \/ SubSeq(s, p[1] - 1, p[1] - 1) \in seps
        /\ p[2] = Len(s) \/ SubSeq(s, p[2] + 1, p[2] + 1) \in seps
        /\ \A i \in p[1]..p[2] : SubSeq(s, i, i) \notin seps}

\* part_005:1030, content.split('\n').filter(line => line.trim()).length
fallbackLineCount(s) ==
    Cardinality({p \in splitPieces(s, {"\n"}) :
                    trim(SubSeq(s, p[1], p[2])) # ""})

\* part_005:1031, content.split(/\s+/).filter(w => w.trim()).length: the
\* pieces between runs of white space that are not empty
fallbackWordCount(s) ==
    Cardinality({p \in splitPieces(s, WhiteSpace) : p[1] <= p[2]})

\* part_005:1029-1130
generateFallbackVisualization(s) ==
    fallbackHead \o escapeAngles(s) \o fallbackAfterContent
        \o ToString(fallbackWordCount(s)) \o fallbackAfterWords
        \o ToString(fallbackLineCount(s)) \o fallbackAfterLines
        \o ToString(Len(s)) \o fallbackTail

\* part_005:988, apiKey && apiKey.trim() !== '' && apiKey !== 'undefined'
\* (a variable the build does not define reads as the empty key here)
apiKeyUsable(apiKey) ==
    apiKey # "" /\ trim(apiKey) # "" /\ apiKey # "undefined"

\* part_005:1171-1232, the messages of the Errors callGeminiAPI throws, and
\* the one of a fetch that rejects
EmbeddedApiErrors ==
    {"Failed to fetch",
     "Gemini API error: 500 - Internal Server Error",
     "Gemini API error: API key not valid",
     "No candidates returned from Gemini API",
     "Content was blocked by Gemini safety filters",
     "Invalid response structure from Gemini API"}

\* part_005:1154, 1160: handleRetry names a function that is local to the
\* effect of line 965, so evaluating the name throws this ReferenceError
FallbackNotInScope == "generateFallbackVisualization is not defined"

\* location.state?.messageContent || '' of the visits modelled
EmbeddedContents ==
    {"", "Q3", "a <b> c", "Revenue up\n\nCosts down ", "</html><script>",
     "x\ny\n z"}

\* import.meta.env.VITE_GEMINI_API_KEY of the builds modelled
ApiKeys == {"", "   ", "undefined", "AIzaSyD-usable"}

\* the texts callGeminiAPI returns in the visits modelled
EmbeddedReplies ==
    {"<html>chart</html>", "", Fence \o "html\n<html></html>\n" \o Fence}

\* part_005:1261-1397: what the component renders
EmbeddedView(e) ==
    IF e.pc = "navigated" THEN "chat"
    ELSE IF e.isLoading THEN "loading"
    ELSE IF e.error # null THEN "error"
    ELSE IF e.visualizationHTML # "" THEN "iframe"
    ELSE "empty"

InitEmbedded ==
    /\ \E m \in EmbeddedContents, k \in ApiKeys :
           embedded = [EmbeddedUnmounted EXCEPT !.pc = "mounted",
                                                !.messageContent = m,
                                                !.apiKey = k]
    /\ chat = ChatInitial
    /\ messageInput = ""
    /\ requests = <<>>
    /\ storage = EmptyStorage
    /\ location = ChatLocation
    /\ page = PageUnmounted
    /\ generations = <<>>
    /\ retryTimers = <<>>
    /\ mobile = MobileInitial
    /\ asyncStorage = EmptyStorage
    /\ asyncOps = <<>>
    /\ gemini = GeminiIdle
    /\ content = ""
    /\ pc = "idle"
    /\ locals = NoLocals
    /\ html = ""
    /\ prevContent = ""
    /\ prevHtml = ""
    /\ now = 0
    /\ calledAt = 0
    /\ prevCalledAt = 0
    /\ response = ""
    /\ gvpc = "idle"
    /\ gvError = ""
    /\ cleaned = ""
    /\ htmlContent = ""

\* part_005:965-1026, 1133: the effect of the mount, up to the await of
\* line 996 or, without a usable key, to the end of generateVisualization
EmbeddedLoad ==
    /\ embedded.pc = "mounted"
    /\ embedded' =
          IF embedded.messageContent = ""
          THEN [embedded EXCEPT !.pc = "navigated"]
          ELSE IF apiKeyUsable(embedded.apiKey)
          THEN [embedded EXCEPT !.pc = "calling", !.load = "initial",
                                !.api = "calling",
                                !.isLoading = TRUE, !.error = null]
          ELSE [embedded EXCEPT
                   !.pc = "settled", !.load = "initial", !.api = "nokey",
                   !.error = {"API key not configured or invalid"},
                   !.visualizationHTML =
                       generateFallbackVisualization(embedded.messageContent),
                   !.isLoading = FALSE]
    /\ UNCHANGED <<mockVars, cleanVars, chatVars, pageVars, mobileVars, gemini>>

\* part_005:996-1001, 1023-1025: callGeminiAPI resolves
EmbeddedLoadResolves ==
    /\ embedded.pc = "calling"
    /\ \E r \in EmbeddedReplies :
           embedded' = [embedded EXCEPT !.pc = "settled", !.api = "resolved",
                                        !.visualizationHTML = r,
                                        !.isLoading = FALSE]
    /\ UNCHANGED <<mockVars, cleanVars, chatVars, pageVars, mobileVars, gemini>>

\* part_005:1002-1005, 1011-1014, 1023-1025: callGeminiAPI throws
EmbeddedLoadRejects ==
    /\ embedded.pc = "calling"
    /\ \E m \in EmbeddedApiErrors :
           embedded' = [embedded EXCEPT
                           !.pc = "settled", !.api = "rejected",
                           !.error = {"API Error: " \o m},
                           !.visualizationHTML =
                               generateFallbackVisualization(embedded.messageContent),
                           !.isLoading = FALSE]
    /\ UNCHANGED <<mockVars, cleanVars, chatVars, pageVars, mobileVars, gemini>>

\* part_005:1140-1168, the Try Again button of the error view (line 1323),
\* up to the await of line 1151 or, without a usable key, to the end
EmbeddedRetry ==
    /\ embedded.pc = "settled"
    /\ EmbeddedView(embedded) = "error"
    /\ embedded' =
          IF apiKeyUsable(embedded.apiKey)
          THEN [embedded EXCEPT !.pc = "retrying", !.load = "retry",
                                !.api = "calling",
                                !.isLoading = TRUE, !.error = null]
          ELSE [embedded EXCEPT !.load = "retry", !.api = "nokey",
                                !.error = {FallbackNotInScope},
                                !.isLoading = FALSE]
    /\ UNCHANGED <<mockVars, cleanVars, chatVars, pageVars, mobileVars, gemini>>

\* part_005:1151-1152, 1162-1164
EmbeddedRetryResolves ==
    /\ embedded.pc = "retrying"
    /\ \E r \in EmbeddedReplies :
           embedded' = [embedded EXCEPT !.pc = "settled", !.api = "resolved",
                                        !.visualizationHTML = r,
                                        !.isLoading = FALSE]
    /\ UNCHANGED <<mockVars, cleanVars, chatVars, pageVars, mobileVars, gemini>>

\* part_005:1157-1164: the catch sets the error, then throws on line 1160
EmbeddedRetryRejects ==
    /\ embedded.pc = "retrying"
    /\ \E m \in EmbeddedApiErrors :
           embedded' = [embedded EXCEPT !.pc = "settled", !.api = "rejected",
                                        !.error = {m},
                                        !.isLoading = FALSE]
    /\ UNCHANGED <<mockVars, cleanVars, chatVars, pageVars, mobileVars, gemini>>

NextEmbedded ==
    \/ EmbeddedLoad
    \/ EmbeddedLoadResolves
    \/ EmbeddedLoadRejects
    \/ EmbeddedRetry
    \/ EmbeddedRetryResolves
    \/ EmbeddedRetryRejects

SpecEmbedded == InitEmbedded /\ [][NextEmbedded]_vars

\* C12: when the initial load of the embedded page finds no usable key, or
\* its Gemini call throws, the page shows the fallback document in the
\* iframe once loading has finished.
C12_FallbackShown ==
    (/\ embedded.pc = "settled"
     /\ embedded.load = "initial"
     /\ embedded.api \in {"nokey", "rejected"})
        => /\ ~embedded.isLoading
           /\ EmbeddedView(embedded) = "iframe"
           /\ embedded.visualizationHTML =
                  generateFallbackVisualization(embedded.messageContent)

\* ------------------------------------------------------------------------
\* useChat and MessageInput of the web App
\* ------------------------------------------------------------------------

\* the most user messages a chat log holds
MaxSends == 2

\* the latest value of Date.now() while the chat runs
MaxNow == 2

\* new Set(array): the elements of the array in the order of their first
\* occurrence
RECURSIVE SetOf(_)
SetOf(array) ==
    IF array = <<>> THEN <<>>
    ELSE LET front == SetOf(SubSeq(array, 1, Len(array) - 1))
             x == array[Len(array)]
         IN  IF \E i \in DOMAIN front : front[i] = x THEN front
             ELSE Append(front, x)

\* map.set(k, v) on the entries of a Map: the value of an entry with key k is
\* replaced where it stands, a new key is added at the end
MapSet(entries, k, v) ==
    IF \E i \in DOMAIN entries : entries[i][1] = k
    THEN [i \in DOMAIN entries |->
             IF entries[i][1] = k THEN <<k, v>> ELSE entries[i]]
    ELSE Append(entries, <<k, v>>)

\* new Map(array) for an array of [key, value] pairs
RECURSIVE MapOf(_)
MapOf(array) ==
    IF array = <<>> THEN <<>>
    ELSE LET last == array[Len(array)]
         IN  MapSet(MapOf(SubSeq(array, 1, Len(array) - 1)), last[1], last[2])

\* map.get(k): the value, or null (undefined) without an entry for k
MapGet(entries, k) ==
    IF \E i \in DOMAIN entries : entries[i][1] = k
    THEN Some((CHOOSE e \in {entries[i] : i \in DOMAIN entries} : e[1] = k)[2])
    ELSE null

\* App.tsx:70, JSON.stringify(messages): a Date is written as its ISO string
stringifyMessages(messages) ==
    [i \in DOMAIN messages |->
        [id |-> messages[i].id, text |-> messages[i].text,
         isUser |-> messages[i].isUser,
         timestamp |-> <<"ISO 8601", messages[i].timestamp>>]]

\* App.tsx:37-41, JSON.parse and new Date(msg.timestamp) on each message
parseMessages(json) ==
    [i \in DOMAIN json |->
        [id |-> json[i].id, text |-> json[i].text, isUser |-> json[i].isUser,
         timestamp |-> json[i].timestamp[2]]]

\* App.tsx:68-72, the effect on [messages]
saveMessages(st, messages) ==
    IF Len(messages) > 0
    THEN [st EXCEPT ![STORAGE_KEY] = Some(stringifyMessages(messages))]
    ELSE st

\* App.tsx:75-77, the effect on [visualizedMessages]; Array.from(set)
saveVisualizations(st, visualizedMessages) ==
    [st EXCEPT ![VISUALIZATIONS_KEY] = Some(visualizedMessages)]

\* App.tsx:80-82, the effect on [visualizationCache]; Array.from(map.entries())
saveCache(st, visualizationCache) ==
    [st EXCEPT ![VISUALIZATION_CACHE_KEY] = Some(visualizationCache)]

\* App.tsx:125-136, the message of the Error thrown on a response not ok
notOkMessage(status) ==
    "Failed to connect to Astra. " \o
    (IF status = 500
     THEN "The AI service is temporarily unavailable. Please try again in a moment."
     ELSE IF status = 404
     THEN "The AI service endpoint was not found."
     ELSE IF status >= 400 /\ status < 500
     THEN "There was an issue with your request."
     ELSE "Server error (" \o ToString(status) \o "). Please try again.")

\* App.tsx:144
Apology == "I'm sorry, I didn't receive a proper response. Please try again."

\* what the user types into the textarea
Typed == {"", " hi ", "Q3 revenue"}

\* the bodies of the webhook's ok responses
WebhookBodies == {"", "Revenue\\ngrew **12%**"}

\* the statuses of the webhook's responses that are not ok
Statuses == {500, 404, 400, 503}

\* the messages of the TypeErrors of a fetch that rejects
FetchErrors == {"Failed to fetch"}

\* the user messages of a log
UserMessages(messages) == {i \in DOMAIN messages : messages[i].isUser}

\* the sequence without its i-th element
Without(seq, i) == SubSeq(seq, 1, i - 1) \o SubSeq(seq, i + 1, Len(seq))

\* the other variables of the module, which the chat leaves alone
mockRest ==
    <<content, pc, locals, html, prevContent, prevHtml, calledAt, prevCalledAt>>

\* ------------------------------------------------------------------------
\* The web VisualizationPage seen from App
\* ------------------------------------------------------------------------

\* the user opens a visualization only while fewer calls of
\* generateVisualization and retry timers than this are under way
MaxPending == 1

\* the test of a value of type string | undefined in a condition
Truthy(o) == o # null /\ the(o) # ""

\* s.replace(/from/g, to) for a literal text from
RECURSIVE replaceAll(_, _, _)
replaceAll(s, from, to) ==
    LET at == {k \in 1..(Len(s) - Len(from) + 1) :
                  SubSeq(s, k, k + Len(from) - 1) = from}
    IN  IF at = {} THEN s
        ELSE LET first == CHOOSE k \in at : \A j \in at : k <= j
             IN  SubSeq(s, 1, first - 1) \o to
                     \o replaceAll(SubSeq(s, first + Len(from), Len(s)),
                                   from, to)

\* App.tsx:231-240, formatMessage of a message of Astra: a written-out
\* backslash n becomes a line break and an escaped asterisk loses its
\* backslash
formatMessage(text) == replaceAll(replaceAll(text, "\\n", "\n"), "\\*", "*")

\* a load that asks for a document although the location carries one
loadStarts_IgnoresCache(st) ==
    Truthy(st.messageContent)

\* VisualizationPage.tsx:147-159: loadVisualization goes on to the request
loadStarts(st) ==
    Truthy(st.messageContent) /\ ~Truthy(st.cachedVisualization)

\* VisualizationPage.tsx:146-164: the state of the page when loadVisualization
\* has run to its end or to its await
loadVisualization(pg, st) ==
    IF ~Truthy(st.messageContent)
    THEN [pg EXCEPT !.error = Some("No message content provided"),
                    !.isLoading = FALSE]
    ELSE IF Truthy(st.cachedVisualization)
    THEN [pg EXCEPT !.visualizationHtml = the(st.cachedVisualization),
                    !.isLoading = FALSE]
    ELSE [pg EXCEPT !.isLoading = TRUE, !.error = null]

\* a call of generateVisualization under way: its argument, the messageId of
\* the render it was made in, whether that page is still mounted, and who
\* made it
Generation(st, by, live) ==
    [content |-> the(st.messageContent), messageId |-> st.messageId,
     live |-> live, by |-> by]

\* VisualizationPage.tsx:145-183 with App.tsx:93-95, 511: a render of App
\* hands the page a new cacheVisualization, which is among the dependencies
\* of the effect, so the effect of a mounted page runs again
PageAfterRender(pg, loc) ==
    IF pg.mounted THEN loadVisualization(pg, loc.state) ELSE pg

GenerationsAfterRender(gens, pg, loc) ==
    IF pg.mounted /\ loadStarts(loc.state)
    THEN Append(gens, Generation(loc.state, "load", TRUE))
    ELSE gens

\* a render of App after a change of its state
AppRenders ==
    /\ page' = PageAfterRender(page, location)
    /\ generations' = GenerationsAfterRender(generations, page, location)
    /\ UNCHANGED <<location, retryTimers>>

\* a Map that holds nothing but the entry written last
cacheVisualization_Newest(prev, messageId, doc) ==
    <<<<messageId, doc>>>>

\* App.tsx:93-95, new Map([...prev, [messageId, doc]])
cacheVisualization(prev, messageId, doc) ==
    MapOf(Append(prev, <<messageId, doc>>))

\* a marking that leaves the set as it was
markMessageAsVisualized_Forgets(prev, messageId) == prev

\* App.tsx:85-87, new Set([...prev, messageId])
markMessageAsVisualized(prev, messageId) == SetOf(Append(prev, messageId))

\* App.tsx:97-99
getCachedVisualization(cache, messageId) == MapGet(cache, messageId)

\* the texts of the Gemini replies in the visits modelled
PageReplies ==
    {"<html>A</html>", Fence \o "html\n<html>B</html>\n" \o Fence}

\* VisualizationPage.tsx:97-137: what generateVisualization resolves with
GeneratedDocs == {ensureDocument(cleanUp(r)) : r \in PageReplies}

\* VisualizationPage.tsx:28-30, 83-95, 139-142: the messages of the Errors
\* generateVisualization rejects with
GenerationErrors == {ErrorMessage[k] : k \in {"no_key", "fetch_failed"}}

InitChat ==
    /\ embedded = EmbeddedUnmounted
    /\ chat = ChatInitial
    /\ messageInput = ""
    /\ requests = <<>>
    /\ storage = EmptyStorage
    /\ location = ChatLocation
    /\ page = PageUnmounted
    /\ generations = <<>>
    /\ retryTimers = <<>>
    /\ mobile = MobileInitial
    /\ asyncStorage = EmptyStorage
    /\ asyncOps = <<>>
    /\ gemini = GeminiIdle
    /\ content = ""
    /\ pc = "idle"
    /\ locals = NoLocals
    /\ html = ""
    /\ prevContent = ""
    /\ prevHtml = ""
    /\ now = 0
    /\ calledAt = 0
    /\ prevCalledAt = 0
    /\ response = ""
    /\ gvpc = "idle"
    /\ gvError = ""
    /\ cleaned = ""
    /\ htmlContent = ""

\* a mount whose save effects run before the load effect reads the keys
ChatMount_SaveFirst ==
    /\ chat.pc = "unmounted"
    /\ storage' = saveCache(saveVisualizations(saveMessages(storage, <<>>),
                                               <<>>), <<>>)
    /\ chat' = [ChatInitial EXCEPT !.pc = "mounting", !.pending = storage']
    /\ AppRenders
    /\ UNCHANGED <<messageInput, requests, embedded, mobileVars, gemini, mockVars,
                   cleanVars>>

\* App.tsx:30-83, the effects of the first render in their order: the load
\* effect reads the three keys and asks for the state updates, then the save
\* effects run on the initial state
ChatMount ==
    /\ chat.pc = "unmounted"
    /\ chat' = [ChatInitial EXCEPT !.pc = "mounting", !.pending = storage]
    /\ storage' = saveCache(saveVisualizations(saveMessages(storage, <<>>),
                                               <<>>), <<>>)
    /\ AppRenders
    /\ UNCHANGED <<messageInput, requests, embedded, mobileVars, gemini, mockVars,
                   cleanVars>>

\* App.tsx:36-65, 68-83: the render that applies the updates of the load
\* effect, and the save effects of the states it changed
ChatMountCommit ==
    /\ chat.pc = "mounting"
    /\ LET p == chat.pending
           messages == IF p[STORAGE_KEY] # null
                       THEN parseMessages(the(p[STORAGE_KEY]))
                       ELSE chat.messages
           visualized == IF p[VISUALIZATIONS_KEY] # null
                         THEN SetOf(the(p[VISUALIZATIONS_KEY]))
                         ELSE chat.visualizedMessages
           cache == IF p[VISUALIZATION_CACHE_KEY] # null
                    THEN MapOf(the(p[VISUALIZATION_CACHE_KEY]))
                    ELSE chat.visualizationCache
           st1 == IF p[STORAGE_KEY] # null
                  THEN saveMessages(storage, messages) ELSE storage
           st2 == IF p[VISUALIZATIONS_KEY] # null
                  THEN saveVisualizations(st1, visualized) ELSE st1
           st3 == IF p[VISUALIZATION_CACHE_KEY] # null
                  THEN saveCache(st2, cache) ELSE st2
       IN  /\ chat' = [chat EXCEPT !.pc = "ready",
                                   !.messages = messages,
                                   !.visualizedMessages = visualized,
                                   !.visualizationCache = cache,
                                   !.pending = EmptyStorage]
           /\ storage' = st3
           /\ IF \E k \in StorageKeys : p[k] # null
              THEN AppRenders ELSE UNCHANGED pageVars
    /\ UNCHANGED <<messageInput, requests, embedded, mobileVars, gemini, mockVars,
                   cleanVars>>

\* the page is loaded again in the same tab: the state of the components and
\* the requests under way are gone, sessionStorage stays
Reload ==
    /\ chat.pc = "ready"
    /\ location.pathname = "/"
    /\ chat' = ChatInitial
    /\ messageInput' = ""
    /\ requests' = <<>>
    /\ generations' = <<>>
    /\ retryTimers' = <<>>
    /\ UNCHANGED <<storage, location, page, embedded, mobileVars, gemini, mockVars,
                   cleanVars>>

\* App.tsx:449-452, onChange of the textarea, which is disabled while loading
TypeMessage ==
    /\ chat.pc = "ready"
    /\ location.pathname = "/"
    /\ ~chat.isLoading
    /\ \E t \in Typed : t # messageInput /\ messageInput' = t
    /\ UNCHANGED <<chat, requests, storage, pageVars, embedded, mobileVars, gemini,
                   mockVars, cleanVars>>

\* App.tsx:101-122 and 68-72: sendMessage up to its await of fetch, and the
\* save effect of the render that follows
sendMessage(messageText) ==
    LET userMessage == [id |-> ToString(now), text |-> messageText,
                        isUser |-> TRUE, timestamp |-> now]
    IN  /\ chat' = [chat EXCEPT !.error = null,
                                !.lastUserMessage = messageText,
                                !.messages = Append(@, userMessage),
                                !.isLoading = TRUE]
        /\ requests' = Append(requests, [url |-> WEBHOOK_URL,
                                         chatInput |-> messageText])
        /\ storage' = saveMessages(storage, Append(chat.messages, userMessage))

\* App.tsx:415-420, handleSend of MessageInput
HandleSend ==
    /\ chat.pc = "ready"
    /\ location.pathname = "/"
    /\ trim(messageInput) # ""
    /\ ~chat.isLoading
    /\ Cardinality(UserMessages(chat.messages)) < MaxSends
    /\ sendMessage(trim(messageInput))
    /\ messageInput' = ""
    /\ UNCHANGED <<pageVars, embedded, mobileVars, gemini, mockVars,
                   cleanVars>>

\* a Retry button that is rendered whether error is set or not
RetryLastMessage_AlwaysShown ==
    /\ chat.pc = "ready"
    /\ location.pathname = "/"
    /\ Cardinality(UserMessages(chat.messages)) < MaxSends
    /\ IF chat.lastUserMessage # ""
       THEN sendMessage(chat.lastUserMessage)
       ELSE UNCHANGED <<chat, requests, storage>>
    /\ UNCHANGED <<messageInput, pageVars, embedded, mobileVars, gemini, mockVars,
                   cleanVars>>

\* App.tsx:162-166, retryLastMessage, from the Retry button that is rendered
\* while error is set (lines 431-442)
RetryLastMessage ==
    /\ chat.pc = "ready"
    /\ location.pathname = "/"
    /\ chat.error # null
    /\ Cardinality(UserMessages(chat.messages)) < MaxSends
    /\ IF chat.lastUserMessage # ""
       THEN sendMessage(chat.lastUserMessage)
       ELSE UNCHANGED <<chat, requests, storage>>
    /\ UNCHANGED <<messageInput, pageVars, embedded, mobileVars, gemini, mockVars,
                   cleanVars>>

\* a handler that appends the reply to the log of the render that sent the
\* message, which does not hold the user message yet
WebhookOk_StaleLog(i) ==
    /\ chat.pc = "ready"
    /\ \E data \in WebhookBodies :
        LET astraMessage == [id |-> ToString(now + 1),
                             text |-> IF data # "" THEN data ELSE Apology,
                             isUser |-> FALSE, timestamp |-> now]
            stale == SubSeq(chat.messages, 1, Len(chat.messages) - 1)
        IN  /\ chat' = [chat EXCEPT !.messages = Append(stale, astraMessage),
                                    !.isLoading = FALSE]
            /\ storage' = saveMessages(storage, Append(stale, astraMessage))
    /\ requests' = Without(requests, i)
    /\ AppRenders
    /\ UNCHANGED <<messageInput, embedded, mobileVars, gemini, mockVars,
                   cleanVars>>

\* App.tsx:139-149, 157-159 and 68-72: the response is ok
WebhookOk(i) ==
    /\ chat.pc = "ready"
    /\ \E data \in WebhookBodies :
        LET astraMessage == [id |-> ToString(now + 1),
                             text |-> IF data # "" THEN data ELSE Apology,
                             isUser |-> FALSE, timestamp |-> now]
        IN  /\ chat' = [chat EXCEPT !.messages = Append(@, astraMessage),
                                    !.isLoading = FALSE]
            /\ storage' = saveMessages(storage,
                                       Append(chat.messages, astraMessage))
    /\ requests' = Without(requests, i)
    /\ AppRenders
    /\ UNCHANGED <<messageInput, embedded, mobileVars, gemini, mockVars,
                   cleanVars>>

\* a handler that answers a response not ok with the apology as a reply
WebhookNotOk_Apologises(i) ==
    /\ chat.pc = "ready"
    /\ \E status \in Statuses :
           chat' = [chat EXCEPT !.error = Some(notOkMessage(status)),
                                !.messages =
                                    Append(@, [id |-> ToString(now + 1),
                                               text |-> Apology,
                                               isUser |-> FALSE,
                                               timestamp |-> now]),
                                !.isLoading = FALSE]
    /\ requests' = Without(requests, i)
    /\ AppRenders
    /\ UNCHANGED <<messageInput, storage, embedded, mobileVars, gemini, mockVars,
                   cleanVars>>

\* App.tsx:124-137, 150-159: the response is not ok
WebhookNotOk(i) ==
    /\ chat.pc = "ready"
    /\ \E status \in Statuses :
           chat' = [chat EXCEPT !.error = Some(notOkMessage(status)),
                                !.isLoading = FALSE]
    /\ requests' = Without(requests, i)
    /\ AppRenders
    /\ UNCHANGED <<messageInput, storage, embedded, mobileVars, gemini, mockVars,
                   cleanVars>>

\* a handler whose catch leaves the loading flag set
WebhookThrows_StaysLoading(i) ==
    /\ chat.pc = "ready"
    /\ \E m \in FetchErrors :
           chat' = [chat EXCEPT !.error = Some(m)]
    /\ requests' = Without(requests, i)
    /\ AppRenders
    /\ UNCHANGED <<messageInput, storage, embedded, mobileVars, gemini, mockVars,
                   cleanVars>>

\* App.tsx:116-122, 150-159: fetch rejects
WebhookThrows(i) ==
    /\ chat.pc = "ready"
    /\ \E m \in FetchErrors :
           chat' = [chat EXCEPT !.error = Some(m), !.isLoading = FALSE]
    /\ requests' = Without(requests, i)
    /\ AppRenders
    /\ UNCHANGED <<messageInput, storage, embedded, mobileVars, gemini, mockVars,
                   cleanVars>>

\* the time of Date.now() passes
ChatTick ==
    /\ now < MaxNow
    /\ now' = now + 1
    /\ UNCHANGED <<mockRest, cleanVars, appVars>>

NextChat ==
    \/ ChatMount
    \/ ChatMountCommit
    \/ Reload
    \/ TypeMessage
    \/ HandleSend
    \/ RetryLastMessage
    \/ \E i \in DOMAIN requests : WebhookOk(i)
    \/ \E i \in DOMAIN requests : WebhookNotOk(i)
    \/ \E i \in DOMAIN requests : WebhookThrows(i)
    \/ ChatTick

SpecChat == InitChat /\ [][NextChat]_vars

\* a step in which the request i fails: its response is not ok, or it throws
WebhookFails(i) == WebhookNotOk(i) \/ WebhookThrows(i)

\* a step in which sendMessage runs up to its await
SendStarts ==
    /\ Len(requests') = Len(requests) + 1
    /\ chat'.isLoading
    /\ chat'.lastUserMessage = requests'[Len(requests')].chatInput

\* C13: when the webhook answers not ok or the request throws, the state
\* afterwards has a non-null error, isLoading false, the user's message in
\* the log and no assistant message appended; and while the hook stays
\* mounted, only a sendMessage takes the error back to null.
C13_FailedSend ==
    [][/\ \A i \in DOMAIN requests :
            WebhookFails(i) =>
                /\ chat'.error # null
                /\ the(chat'.error) # ""
                /\ ~chat'.isLoading
                /\ chat'.messages = chat.messages
                /\ \E j \in UserMessages(chat'.messages) :
                       chat'.messages[j].text = requests[i].chatInput
       /\ (chat.pc = "ready" /\ chat'.pc = "ready"
             /\ chat.error # null /\ chat'.error = null) => SendStarts]_vars

C13_Witness ==
    /\ chat.pc = "ready"
    /\ chat.error = Some(notOkMessage(503))
    /\ ~chat.isLoading
    /\ requests = <<>>
    /\ Len(chat.messages) = 1
    /\ chat.messages[1].isUser
    /\ chat.messages[1].text = "Q3 revenue"

\* ------------------------------------------------------------------------
\* The web App with its visualization route
\* ------------------------------------------------------------------------

\* App.tsx:241-268 and 85-87, 75-77: openVisualization of the i-th message,
\* whose chart button lines 355-363 render for a message of Astra; the page
\* is mounted and its effect runs
OpenVisualization(i) ==
    /\ chat.pc = "ready"
    /\ location.pathname = "/"
    /\ ~chat.messages[i].isUser
    /\ Len(generations) + Len(retryTimers) < MaxPending
    /\ LET messageId == chat.messages[i].id
           cached == getCachedVisualization(chat.visualizationCache, messageId)
           st == [messageContent |-> Some(formatMessage(chat.messages[i].text)),
                  visualizationType |-> Some("quick"),
                  cachedVisualization |-> IF Truthy(cached) THEN cached
                                          ELSE null,
                  messageId |-> Some(messageId)]
           visualized == markMessageAsVisualized(chat.visualizedMessages,
                                                 messageId)
       IN  /\ chat' = [chat EXCEPT !.visualizedMessages = visualized]
           /\ storage' = saveVisualizations(storage, visualized)
           /\ location' = [pathname |-> "/visualization", state |-> st]
           /\ page' = loadVisualization(PageInitial, st)
           /\ generations' = IF loadStarts(st)
                             THEN Append(generations,
                                         Generation(st, "load", TRUE))
                             ELSE generations
    /\ messageInput' = ""
    /\ UNCHANGED <<requests, retryTimers, embedded, mobileVars, gemini, mockVars,
                   cleanVars>>

\* the user opens /visualization by its address: the application is loaded
\* there with no location state, and what ran before is gone
VisitDirectly ==
    /\ chat.pc = "ready"
    /\ location.pathname = "/"
    /\ chat' = ChatInitial
    /\ messageInput' = ""
    /\ requests' = <<>>
    /\ generations' = <<>>
    /\ retryTimers' = <<>>
    /\ location' = [ChatLocation EXCEPT !.pathname = "/visualization"]
    /\ page' = PageInitial
    /\ UNCHANGED <<storage, embedded, mobileVars, gemini, mockVars,
                   cleanVars>>

\* the calls and timers of a page that is unmounted: none is stopped
Orphaned(calls) == [i \in DOMAIN calls |-> [calls[i] EXCEPT !.live = FALSE]]

\* VisualizationPage.tsx:185-187, handleGoBack
HandleGoBack ==
    /\ chat.pc = "ready"
    /\ page.mounted
    /\ location' = ChatLocation
    /\ page' = PageUnmounted
    /\ generations' = Orphaned(generations)
    /\ retryTimers' = Orphaned(retryTimers)
    /\ UNCHANGED <<chatVars, embedded, mobileVars, gemini, mockVars,
                   cleanVars>>

\* VisualizationPage.tsx:165-178 and App.tsx:93-95, 80-82:
\* generateVisualization resolves. A page that is gone keeps its state, the
\* cache is written all the same, and the render of App that the write
\* brings runs the effect of the mounted page
GenerationResolves(g) ==
    /\ chat.pc = "ready"
    /\ \E doc \in GeneratedDocs :
        LET gen == generations[g]
            shown == IF gen.live
                     THEN [page EXCEPT !.visualizationHtml = doc,
                                       !.isLoading = FALSE]
                     ELSE page
            cache == cacheVisualization(chat.visualizationCache,
                                        the(gen.messageId), doc)
        IN  IF Truthy(gen.messageId)
            THEN /\ chat' = [chat EXCEPT !.visualizationCache = cache]
                 /\ storage' = saveCache(storage, cache)
                 /\ page' = PageAfterRender(shown, location)
                 /\ generations' =
                        GenerationsAfterRender(Without(generations, g),
                                               shown, location)
            ELSE /\ page' = shown
                 /\ generations' = Without(generations, g)
                 /\ UNCHANGED <<chat, storage>>
    /\ UNCHANGED <<messageInput, requests, location, retryTimers, embedded,
                   mobileVars, gemini, mockVars, cleanVars>>

\* VisualizationPage.tsx:173-178: generateVisualization rejects
GenerationRejects(g) ==
    /\ chat.pc = "ready"
    /\ \E m \in GenerationErrors :
           page' = IF generations[g].live
                   THEN [page EXCEPT !.error = Some(m), !.isLoading = FALSE]
                   ELSE page
    /\ generations' = Without(generations, g)
    /\ UNCHANGED <<chatVars, location, retryTimers, embedded, mobileVars, gemini,
                   mockVars, cleanVars>>

\* VisualizationPage.tsx:189-195, handleRetry of the Retry button that the
\* error view of lines 244-265 renders, up to its setTimeout
HandleRetry ==
    /\ chat.pc = "ready"
    /\ page.mounted
    /\ Truthy(location.state.messageContent)
    /\ ~page.isLoading
    /\ page.error # null
    /\ page' = [page EXCEPT !.error = null, !.visualizationHtml = "",
                            !.isLoading = TRUE]
    /\ retryTimers' = Append(retryTimers,
                             [state |-> location.state, live |-> TRUE])
    /\ UNCHANGED <<chatVars, location, generations, embedded, mobileVars, gemini,
                   mockVars, cleanVars>>

\* VisualizationPage.tsx:195-198: the timer of handleRetry fires
RetryTimerFires(t) ==
    /\ generations' = Append(generations,
                             Generation(retryTimers[t].state, "retry",
                                        retryTimers[t].live))
    /\ retryTimers' = Without(retryTimers, t)
    /\ UNCHANGED <<chatVars, location, page, embedded, mobileVars, gemini, mockVars,
                   cleanVars>>

\* handleSend for the first message of a session: the sessions of SpecWeb
\* hold one typed message and its retries
HandleFirstSend == chat.messages = <<>> /\ HandleSend

NextWeb ==
    \/ ChatMount
    \/ ChatMountCommit
    \/ Reload
    \/ TypeMessage
    \/ HandleFirstSend
    \/ RetryLastMessage
    \/ \E i \in DOMAIN requests : WebhookOk(i)
    \/ \E i \in DOMAIN requests : WebhookNotOk(i)
    \/ \E i \in DOMAIN requests : WebhookThrows(i)
    \/ ChatTick
    \/ \E i \in DOMAIN chat.messages : OpenVisualization(i)
    \/ VisitDirectly
    \/ HandleGoBack
    \/ \E g \in DOMAIN generations : GenerationResolves(g)
    \/ \E g \in DOMAIN generations : GenerationRejects(g)
    \/ HandleRetry
    \/ \E t \in DOMAIN retryTimers : RetryTimerFires(t)

SpecWeb == InitChat /\ [][NextWeb]_vars

\* ------------------------------------------------------------------------
\* The cache and the visualized set of useChat, called by any client
\* ------------------------------------------------------------------------

\* the message ids the clients of the hook pass
MessageIds == {"1", "3", "5"}

\* App.tsx:93-95 and 80-82: a client calls cacheVisualization, and the save
\* effect of the render that follows
CacheVisualization(messageId, doc) ==
    /\ chat.pc = "ready"
    /\ LET cache == cacheVisualization(chat.visualizationCache, messageId, doc)
       IN  /\ chat' = [chat EXCEPT !.visualizationCache = cache]
           /\ storage' = saveCache(storage, cache)
    /\ AppRenders
    /\ UNCHANGED <<messageInput, requests, embedded, mobileVars, gemini, mockVars,
                   cleanVars>>

\* App.tsx:85-87 and 75-77: a client calls markMessageAsVisualized
MarkMessageAsVisualized(messageId) ==
    /\ chat.pc = "ready"
    /\ LET visualized == markMessageAsVisualized(chat.visualizedMessages,
                                                 messageId)
       IN  /\ chat' = [chat EXCEPT !.visualizedMessages = visualized]
           /\ storage' = saveVisualizations(storage, visualized)
    /\ AppRenders
    /\ UNCHANGED <<messageInput, requests, embedded, mobileVars, gemini, mockVars,
                   cleanVars>>

NextCache ==
    \/ ChatMount
    \/ ChatMountCommit
    \/ Reload
    \/ \E id \in MessageIds, doc \in GeneratedDocs : CacheVisualization(id, doc)
    \/ \E id \in MessageIds : MarkMessageAsVisualized(id)

SpecCache == InitChat /\ [][NextCache]_vars

\* the entries a stored value holds, none for null
StoredEntries(o) == IF o = null THEN <<>> ELSE MapOf(the(o))

\* the cache of the session: the state of the mounted hook; between a reload
\* and the render that restores it, what the load effect has read or will
\* read
SessionCache(c, st) ==
    IF c.pc = "ready" THEN c.visualizationCache
    ELSE IF c.pc = "mounting"
    THEN StoredEntries(c.pending[VISUALIZATION_CACHE_KEY])
    ELSE StoredEntries(st[VISUALIZATION_CACHE_KEY])

\* C14: the cache has no eviction. An id with a cached value keeps one for
\* the rest of the session, through reloads too, and cacheVisualization(id,
\* html) sets the value of id to html and leaves the value of every other
\* key as it was.
C14_NoEviction ==
    [][/\ \A k \in MessageIds :
            getCachedVisualization(SessionCache(chat, storage), k) # null
                => getCachedVisualization(SessionCache(chat', storage'), k)
                       # null
       /\ \A id \in MessageIds, doc \in GeneratedDocs :
            CacheVisualization(id, doc) =>
                /\ getCachedVisualization(chat'.visualizationCache, id)
                       = Some(doc)
                /\ \A k \in MessageIds \ {id} :
                       getCachedVisualization(chat'.visualizationCache, k)
                           = getCachedVisualization(chat.visualizationCache, k)]_vars

C14_Witness ==
    /\ chat.pc = "ready"
    /\ Len(chat.visualizationCache) = 3
    /\ chat.visualizationCache[1][1] = "5"
    /\ chat.visualizationCache[2][1] = "1"
    /\ chat.visualizationCache[1][2] # chat.visualizationCache[2][2]
    /\ storage[VISUALIZATION_CACHE_KEY] = Some(chat.visualizationCache)

\* ------------------------------------------------------------------------
\* Persistence of the web App
\* ------------------------------------------------------------------------

\* the two lists hold the same ids, texts and isUser flags in the same order
SameLog(a, b) ==
    /\ Len(a) = Len(b)
    /\ \A i \in DOMAIN a :
           /\ a[i].id = b[i].id
           /\ a[i].text = b[i].text
           /\ a[i].isUser = b[i].isUser

\* sessionStorage holds the log (when it is not empty), the visualized set
\* and the cache of the mounted hook as they were last written
StorageCurrent ==
    chat.pc = "ready" =>
        /\ Len(chat.messages) > 0 =>
               /\ storage[STORAGE_KEY] # null
               /\ SameLog(the(storage[STORAGE_KEY]), chat.messages)
        /\ storage[VISUALIZATIONS_KEY] = Some(chat.visualizedMessages)
        /\ storage[VISUALIZATION_CACHE_KEY] = Some(chat.visualizationCache)

\* the step is the render that applies what the load effect read
Restores == chat.pc = "mounting" /\ chat'.pc = "ready"

\* C15: persistence round-trips in the web app. Storage always holds what the
\* mounted hook last wrote; a reload leaves it alone; the load effect reads
\* those values before the save effects of the mount write; and the render
\* that follows restores the log with the same ids, texts, flags and order,
\* the visualized set and the cache, and leaves storage holding them again.
C15_RoundTrip ==
    /\ []StorageCurrent
    /\ [][/\ (chat.pc = "ready" /\ chat'.pc = "unmounted")
               => storage' = storage
          /\ (chat.pc = "unmounted" /\ chat'.pc = "mounting")
               => chat'.pending = storage
          /\ Restores =>
               LET p == chat.pending
               IN  /\ p[STORAGE_KEY] # null =>
                          /\ SameLog(chat'.messages, the(p[STORAGE_KEY]))
                          /\ storage'[STORAGE_KEY] = p[STORAGE_KEY]
                   /\ p[VISUALIZATIONS_KEY] # null =>
                          /\ chat'.visualizedMessages
                                 = the(p[VISUALIZATIONS_KEY])
                          /\ storage'[VISUALIZATIONS_KEY]
                                 = p[VISUALIZATIONS_KEY]
                   /\ p[VISUALIZATION_CACHE_KEY] # null =>
                          /\ chat'.visualizationCache
                                 = the(p[VISUALIZATION_CACHE_KEY])
                          /\ storage'[VISUALIZATION_CACHE_KEY]
                                 = p[VISUALIZATION_CACHE_KEY]]_vars

\* a hook that was restored (no send since its mount) with a log, a
\* visualized message and a cached document
C15_Witness ==
    /\ chat.pc = "ready"
    /\ chat.lastUserMessage = ""
    /\ Len(chat.messages) = 2
    /\ ~chat.messages[2].isUser
    /\ chat.visualizedMessages = <<chat.messages[2].id>>
    /\ Len(chat.visualizationCache) = 1
    /\ chat.visualizationCache[1][1] = chat.messages[2].id
    /\ storage[STORAGE_KEY] = Some(stringifyMessages(chat.messages))
    /\ storage[VISUALIZATION_CACHE_KEY] = Some(chat.visualizationCache)

\* ------------------------------------------------------------------------
\* The mobile App: start-up and visualizations
\* ------------------------------------------------------------------------

\* astra-mobile/App.tsx:188-285, the document generateVisualization returns
mockVisualizationHtml ==
    "\n" \o
    "<!DOCTYPE html>\n" \o
    "<html lang=\"en\">\n" \o
    "<head>\n" \o
    "    <meta charset=\"UTF-8\">\n" \o
    "    <meta name=\"viewport\" content=\"width=device-width, initial-scale=1.0\">\n" \o
    "    <title>Data Visualization</title>\n" \o
    "    <script src=\"https://cdn.jsdelivr.net/npm/chart.js\"></script>\n" \o
    "    <style>\n" \o
    "        body { \n" \o
    "            font-family: Arial, sans-serif; \n" \o
    "            margin: 20px; \n" \o
    "            background: #f5f5f5; \n" \o
    "        }\n" \o
    "        .container { \n" \o
    "            max-width: 1200px; \n" \o
    "            margin: 0 auto; \n" \o
    "            background: white; \n" \o
    "            padding: 20px; \n" \o
    "            border-radius: 8px; \n" \o
    "            box-shadow: 0 2px 10px rgba(0,0,0,0.1); \n" \o
    "        }\n" \o
    "        .chart-container {\n" \o
    "            position: relative;\n" \o
    "            height: 400px;\n" \o
    "            margin: 20px 0;\n" \o
    "        }\n" \o
    "        h1 { color: #333; text-align: center; }\n" \o
    "        .metric { \n" \o
    "            display: inline-block; \n" \o
    "            margin: 10px; \n" \o
    "            padding: 15px; \n" \o
    "            background: #FF4500; \n" \o
    "            color: white; \n" \o
    "            border-radius: 8px; \n" \o
    "            text-align: center;\n" \o
    "        }\n" \o
    "    </style>\n" \o
    "</head>\n" \o
    "<body>\n" \o
    "    <div class=\"container\">\n" \o
    "        <h1>(U+F8FF)(U+FC)(U+EC)(U+E4) RocketHub Data Analysis</h1>\n" \o
    "        <div class=\"metric\">\n" \o
    "            <h3>Revenue Growth</h3>\n" \o
    "            <p>39x Increase</p>\n" \o
    "        </div>\n" \o
    "        <div class=\"metric\">\n" \o
    "            <h3>Projected Revenue</h3>\n" \o
    "            <p>$195M</p>\n" \o
    "        </div>\n" \o
    "        <div class=\"metric\">\n" \o
    "            <h3>Time Frame</h3>\n" \o
    "            <p>5 Years</p>\n" \o
    "        </div>\n" \o
    "        \n" \o
    "        <div class=\"chart-container\">\n" \o
    "            <canvas id=\"myChart\"></canvas>\n" \o
    "        </div>\n" \o
    "        \n" \o
    "        <script>\n" \o
    "            const ctx = document.getElementById('myChart').getContext('2d');\n" \o
    "            const myChart = new Chart(ctx, {\n" \o
    "                type: 'line',\n" \o
    "                data: {\n" \o
    "                    labels: ['Year 1', 'Year 2', 'Year 3', 'Year 4', 'Year 5'],\n" \o
    "                    datasets: [{\n" \o
    "                        label: 'Revenue (Millions)',\n" \o
    "                        data: [5, 25, 65, 125, 195],\n" \o
    "                        borderColor: '#FF4500',\n" \o
    "                        backgroundColor: 'rgba(255, 69, 0, 0.1)',\n" \o
    "                        borderWidth: 3,\n" \o
    "                        fill: true\n" \o
    "                    }]\n" \o
    "                },\n" \o
    "                options: {\n" \o
    "                    responsive: true,\n" \o
    "                    maintainAspectRatio: false,\n" \o
    "                    scales: {\n" \o
    "                        y: {\n" \o
    "                            beginAtZero: true,\n" \o
    "                            title: {\n" \o
    "                                display: true,\n" \o
    "                                text: 'Revenue ($M)'\n" \o
    "                            }\n" \o
    "                        }\n" \o
    "                    },\n" \o
    "                    plugins: {\n" \o
    "                        title: {\n" \o
    "                            display: true,\n" \o
    "                            text: 'RocketHub Revenue Projection'\n" \o
    "                        }\n" \o
    "                    }\n" \o
    "                }\n" \o
    "            });\n" \o
    "        </script>\n" \o
    "    </div>\n" \o
    "</body>\n" \o
    "</html>"

\* a reply of Astra long enough for the visualization button of line 368
LongReply ==
    "Revenue grew 12% over the last quarter, from $40M to $45M, while " \o
    "costs stayed flat; the trend has held for three quarters."

\* astra-mobile/App.tsx:323-328, formatMessage of the mobile app: the same
\* two replacements as on the web
mobileFormatMessage(text) ==
    replaceAll(replaceAll(text, "\\n", "\n"), "\\*", "*")

\* astra-mobile/App.tsx:60, 80-83: JSON.stringify and JSON.parse of the log,
\* whose messages of Astra carry isExpanded
stringifyMobileMessages(messages) ==
    [i \in DOMAIN messages |->
        [messages[i] EXCEPT !.timestamp = <<"ISO 8601", messages[i].timestamp>>]]

parseMobileMessages(json) ==
    [i \in DOMAIN json |-> [json[i] EXCEPT !.timestamp = json[i].timestamp[2]]]

\* the log a session of one question and its answer leaves, with the ids of
\* a send at time t and a response at time t + 1
SessionLog(t) ==
    <<[id |-> ToString(t), text |-> "Q3 revenue", isUser |-> TRUE,
       timestamp |-> t],
      [id |-> ToString(t + 2), text |-> LongReply, isUser |-> FALSE,
       timestamp |-> t + 1, isExpanded |-> FALSE]>>

\* what earlier sessions of the app left in AsyncStorage: nothing (a first
\* launch), a log with nothing visualized, and a log whose answer was
\* visualized and cached
PreviousSessions ==
    {[messages |-> <<>>, visualized |-> <<>>, cache |-> <<>>, first |-> TRUE],
     [messages |-> SessionLog(10), visualized |-> <<>>, cache |-> <<>>,
      first |-> FALSE],
     [messages |-> SessionLog(20), visualized |-> <<"22">>,
      cache |-> <<<<"22", mockVisualizationHtml>>>>, first |-> FALSE]}

\* AsyncStorage as the session s left it (lines 57-69)
StorageOf(s) ==
    IF s.first THEN EmptyStorage
    ELSE [k \in StorageKeys |->
             IF k = STORAGE_KEY
             THEN Some(stringifyMobileMessages(s.messages))
             ELSE IF k = VISUALIZATIONS_KEY THEN Some(s.visualized)
             ELSE Some(s.cache)]

\* calls of AsyncStorage
GetItem(key) == [kind |-> "getItem", key |-> key, value |-> null]
SetItem(key, value) == [kind |-> "setItem", key |-> key, value |-> Some(value)]

\* astra-mobile/App.tsx:57-69: the calls the save effects make after a
\* render in which the named states changed
MobileSaves(m, messagesChanged, visualizedChanged, cacheChanged) ==
    (IF messagesChanged /\ Len(m.messages) > 0
     THEN <<SetItem(STORAGE_KEY, stringifyMobileMessages(m.messages))>>
     ELSE <<>>)
    \o (IF visualizedChanged
        THEN <<SetItem(VISUALIZATIONS_KEY, m.visualizedMessages)>> ELSE <<>>)
    \o (IF cacheChanged
        THEN <<SetItem(VISUALIZATION_CACHE_KEY, m.visualizationCache)>>
        ELSE <<>>)

InitMobile ==
    /\ \E s \in PreviousSessions : asyncStorage = StorageOf(s)
    /\ mobile = MobileInitial
    /\ asyncOps = <<>>
    /\ gemini = GeminiIdle
    /\ embedded = EmbeddedUnmounted
    /\ chat = ChatInitial
    /\ messageInput = ""
    /\ requests = <<>>
    /\ storage = EmptyStorage
    /\ location = ChatLocation
    /\ page = PageUnmounted
    /\ generations = <<>>
    /\ retryTimers = <<>>
    /\ content = ""
    /\ pc = "idle"
    /\ locals = NoLocals
    /\ html = ""
    /\ prevContent = ""
    /\ prevHtml = ""
    /\ now = 0
    /\ calledAt = 0
    /\ prevCalledAt = 0
    /\ response = ""
    /\ gvpc = "idle"
    /\ gvError = ""
    /\ cleaned = ""
    /\ htmlContent = ""

\* the other variables of the module, which the mobile App leaves alone
mobileRest == <<embedded, chatVars, pageVars, gemini, mockVars, cleanVars>>

\* astra-mobile/App.tsx:51-76: the effects of the first render in their
\* order. loadStoredData runs to its first await, which calls getItem for the
\* log; the save effects call setItem with the empty set and the empty map
MobileMount ==
    /\ mobile.pc = "unmounted"
    /\ mobile' = [mobile EXCEPT !.pc = "mounted", !.load = "messages"]
    /\ asyncOps' = <<GetItem(STORAGE_KEY)>>
                       \o MobileSaves(mobile, TRUE, TRUE, TRUE)
    /\ UNCHANGED <<asyncStorage, mobileRest>>

\* a setItem under way is carried out; the calls under way end in any order
SetItemCompletes(i) ==
    /\ asyncOps[i].kind = "setItem"
    /\ asyncStorage' = [asyncStorage EXCEPT ![asyncOps[i].key] = asyncOps[i].value]
    /\ asyncOps' = Without(asyncOps, i)
    /\ UNCHANGED <<mobile, mobileRest>>

\* astra-mobile/App.tsx:73-94 and 57-69: a getItem under way resolves and
\* loadStoredData goes on, to its next getItem or, after the third, to the
\* state updates and the save effects of the render they bring
GetItemResolves(i) ==
    /\ asyncOps[i].kind = "getItem"
    /\ LET key == asyncOps[i].key
           saved == [mobile.saved EXCEPT ![key] = asyncStorage[key]]
           rest == Without(asyncOps, i)
           restored ==
               [mobile EXCEPT
                   !.load = "done", !.saved = saved,
                   !.messages =
                       IF saved[STORAGE_KEY] # null
                       THEN parseMobileMessages(the(saved[STORAGE_KEY]))
                       ELSE @,
                   !.visualizedMessages =
                       IF saved[VISUALIZATIONS_KEY] # null
                       THEN SetOf(the(saved[VISUALIZATIONS_KEY])) ELSE @,
                   !.visualizationCache =
                       IF saved[VISUALIZATION_CACHE_KEY] # null
                       THEN MapOf(the(saved[VISUALIZATION_CACHE_KEY]))
                       ELSE @]
       IN  IF key = STORAGE_KEY
           THEN /\ mobile' = [mobile EXCEPT !.load = "visualizations",
                                            !.saved = saved]
                /\ asyncOps' = Append(rest, GetItem(VISUALIZATIONS_KEY))
           ELSE IF key = VISUALIZATIONS_KEY
           THEN /\ mobile' = [mobile EXCEPT !.load = "cache",
                                            !.saved = saved]
                /\ asyncOps' = Append(rest, GetItem(VISUALIZATION_CACHE_KEY))
           ELSE /\ mobile' = restored
                /\ asyncOps' =
                       rest \o MobileSaves(restored,
                                           saved[STORAGE_KEY] # null,
                                           saved[VISUALIZATIONS_KEY] # null,
                                           saved[VISUALIZATION_CACHE_KEY] # null)
    /\ UNCHANGED <<asyncStorage, mobileRest>>

\* astra-mobile/App.tsx:290-318 and 57-69: createVisualization from the
\* button of lines 368-376, with its await of generateVisualization, which
\* returns its document at once, and the save effects of the render after it
CreateVisualization(i) ==
    /\ mobile.pc = "mounted"
    /\ ~mobile.showVisualizationModal
    /\ ~mobile.messages[i].isUser
    /\ Len(mobileFormatMessage(mobile.messages[i].text)) > 100
    /\ LET messageId == mobile.messages[i].id
           cached == MapGet(mobile.visualizationCache, messageId)
           generated ==
               [mobile EXCEPT
                   !.visualizationError = null,
                   !.showVisualizationModal = TRUE,
                   !.currentVisualization = mockVisualizationHtml,
                   !.visualizationCache =
                       MapOf(Append(@, <<messageId, mockVisualizationHtml>>)),
                   !.visualizedMessages = SetOf(Append(@, messageId)),
                   !.isGeneratingVisualization = FALSE]
       IN  IF Truthy(cached)
           THEN /\ mobile' = [mobile EXCEPT
                                 !.visualizationError = null,
                                 !.currentVisualization = the(cached),
                                 !.showVisualizationModal = TRUE]
                /\ UNCHANGED asyncOps
           ELSE /\ mobile' = generated
                /\ asyncOps' = asyncOps \o MobileSaves(generated, FALSE, TRUE, TRUE)
    /\ UNCHANGED <<asyncStorage, mobileRest>>

\* astra-mobile/App.tsx:482-488: the modal is closed
CloseVisualization ==
    /\ mobile.pc = "mounted"
    /\ mobile.showVisualizationModal
    /\ mobile' = [mobile EXCEPT !.showVisualizationModal = FALSE]
    /\ UNCHANGED <<asyncStorage, asyncOps, mobileRest>>

\* the app is closed with no call of AsyncStorage under way, and started
\* again later: its state is gone, AsyncStorage stays
MobileRestart ==
    /\ mobile.pc = "mounted"
    /\ mobile.load = "done"
    /\ asyncOps = <<>>
    /\ mobile' = MobileInitial
    /\ UNCHANGED <<asyncStorage, asyncOps, mobileRest>>

NextMobile ==
    \/ MobileMount
    \/ \E i \in DOMAIN asyncOps : SetItemCompletes(i)
    \/ \E i \in DOMAIN asyncOps : GetItemResolves(i)
    \/ \E i \in DOMAIN mobile.messages : CreateVisualization(i)
    \/ CloseVisualization
    \/ MobileRestart

SpecMobile == InitMobile /\ [][NextMobile]_vars

\* the session among PreviousSessions that left this log
PersistedBy(messages) ==
    CHOOSE s \in PreviousSessions :
        Len(s.messages) > 0 /\ s.messages[1].id = messages[1].id

\* C16: after the start-up of the mobile app, the visualized set and the
\* cache that the previous session persisted are in the state.
C16_RestoredAtStartup ==
    (mobile.pc = "mounted" /\ mobile.load = "done" /\ mobile.messages # <<>>)
        => LET s == PersistedBy(mobile.messages)
           IN  /\ \A i \in DOMAIN s.visualized :
                      \E j \in DOMAIN mobile.visualizedMessages :
                          mobile.visualizedMessages[j] = s.visualized[i]
               /\ \A i \in DOMAIN s.cache :
                      MapGet(mobile.visualizationCache, s.cache[i][1])
                          = Some(s.cache[i][2])

\* ------------------------------------------------------------------------
\* The requests of one visit of the page
\* ------------------------------------------------------------------------

\* a step in which a call of generateVisualization settles
GenerationSettles ==
    \/ \E g \in DOMAIN generations : GenerationResolves(g)
    \/ \E g \in DOMAIN generations : GenerationRejects(g)

\* a step of the user that makes the page ask for a document: the chart
\* button, or the timer of the Retry button
UserAsks ==
    \/ \E i \in DOMAIN chat.messages : OpenVisualization(i)
    \/ \E t \in DOMAIN retryTimers : RetryTimerFires(t)

\* C17: a visit of the page makes one generation request unless the user
\* presses Retry: only the chart button and the Retry timer add a call of
\* generateVisualization, and a step in which a call settles leaves one call
\* fewer under way (the cacheVisualization after a success starts none).
C17_OneGenerationPerVisit ==
    [][\/ UserAsks
       \/ Len(generations') <= Len(generations)
                                   - (IF GenerationSettles THEN 1 ELSE 0)]_vars

\* ------------------------------------------------------------------------
\* A page with nothing to generate
\* ------------------------------------------------------------------------

\* a call of generateVisualization, or a timer that will make one, of the
\* page that is mounted now
PageAsks ==
    \/ \E g \in DOMAIN generations : generations[g].live
    \/ \E t \in DOMAIN retryTimers : retryTimers[t].live

\* the page was opened with no message content, and the effects of its
\* first render have run
NothingToShow ==
    /\ page.mounted
    /\ chat.pc # "unmounted"
    /\ ~Truthy(location.state.messageContent)

\* the page was opened with a cached document in the location state
CachedVisit ==
    /\ page.mounted
    /\ Truthy(location.state.messageContent)
    /\ Truthy(location.state.cachedVisualization)

\* the page state of a visit with nothing to generate
NothingGenerated ==
    /\ NothingToShow
           => /\ page.error = Some("No message content provided")
              /\ ~page.isLoading
              /\ ~PageAsks
    /\ CachedVisit
           => /\ page.visualizationHtml = the(location.state.cachedVisualization)
              /\ ~page.isLoading
              /\ page.error = null
              /\ ~PageAsks

\* C18: the page makes no Gemini request when it has nothing to generate:
\* without message content it shows the error 'No message content provided'
\* and is not loading; with a cached document in the location state it shows
\* exactly that document, not loading, no error, and opening it leaves the
\* cache as it was.
C18_NothingToGenerate ==
    /\ []NothingGenerated
    /\ [][(CachedVisit' /\ ~CachedVisit)
              => chat'.visualizationCache = chat.visualizationCache]_vars

\* a visit that shows a document from the cache
C18_Witness ==
    /\ CachedVisit
    /\ page.visualizationHtml = the(location.state.cachedVisualization)
    /\ generations = <<>>

\* ------------------------------------------------------------------------
\* What a generation leaves behind
\* ------------------------------------------------------------------------

\* a step in which a call made by the mounted page for a message resolves
LiveResolves ==
    \E g \in DOMAIN generations :
        /\ generations[g].live
        /\ Truthy(generations[g].messageId)
        /\ GenerationResolves(g)
        /\ MapGet(chat'.visualizationCache, the(generations[g].messageId))
               = Some(page'.visualizationHtml)

\* a step in which a call made by the mounted page rejects
LiveRejects ==
    \E g \in DOMAIN generations :
        generations[g].live /\ GenerationRejects(g)

\* C19: a generation writes the cache only on success. When the call
\* resolves, the cache maps the messageId to exactly the document that the
\* page holds for display; when it rejects, the cache is unchanged, error is
\* set, the document of the page stays empty and isLoading is false.
C19_CacheOnlyOnSuccess ==
    [][/\ (\E g \in DOMAIN generations :
              /\ generations[g].live
              /\ Truthy(generations[g].messageId)
              /\ GenerationResolves(g))
          => LiveResolves
       /\ LiveRejects
          => /\ chat'.visualizationCache = chat.visualizationCache
             /\ page'.error # null
             /\ page'.visualizationHtml = ""
             /\ ~page'.isLoading]_vars

\* ------------------------------------------------------------------------
\* The loading flag of useChat
\* ------------------------------------------------------------------------

\* App.tsx:114-159: the fetch of a request under way settles: its promise
\* resolves with a response, ok or not, or rejects
WebhookSettles ==
    \E i \in DOMAIN requests :
        WebhookOk(i) \/ WebhookNotOk(i) \/ WebhookThrows(i)

\* the chat under the assumption of the claim, that a request under way
\* resolves or rejects in the end
SpecChatFair == SpecChat /\ WF_vars(WebhookSettles)

\* a step in which sendMessage runs
SendMessageRuns ==
    \/ HandleSend
    \/ RetryLastMessage /\ chat.lastUserMessage # ""

\* C20: isLoading is true exactly while a webhook request is outstanding:
\* in every state the flag is set if and only if a request is under way, a
\* step of sendMessage sets the flag and issues the request, and a set flag
\* is cleared in the end, once the request has resolved or rejected.
C20_LoadingWhileOutstanding ==
    /\ [](chat.isLoading <=> requests # <<>>)
    /\ [][SendMessageRuns
              => chat'.isLoading /\ Len(requests') = Len(requests) + 1]_vars
    /\ (chat.isLoading ~> ~chat.isLoading)

\* a request was rejected and the flag is cleared
C20_Witness ==
    /\ chat.pc = "ready"
    /\ chat.error = Some("Failed to fetch")
    /\ chat.messages # <<>>
    /\ ~chat.isLoading
    /\ requests = <<>>

\* ------------------------------------------------------------------------
\* One request at a time
\* ------------------------------------------------------------------------

\* a step that issues a webhook request
RequestIssued == Len(requests') > Len(requests)

\* C21: at most one webhook request is in flight at any time: error and
\* isLoading are never set together, and a step that issues a request starts
\* with isLoading false and with a non-empty trimmed input (the send action)
\* or with error set (the Retry action).
C21_OneRequestInFlight ==
    /\ [](Len(requests) <= 1 /\ ~(chat.error # null /\ chat.isLoading))
    /\ [][RequestIssued
              => /\ ~chat.isLoading
                 /\ trim(messageInput) # "" \/ chat.error # null]_vars

\* a retry is in flight while the input holds a text the user typed after
\* the failure: the send action is the one the loading flag holds back
C21_Witness ==
    /\ Len(requests) = 1
    /\ chat.isLoading
    /\ trim(messageInput) # ""

\* ------------------------------------------------------------------------
\* The manual retry
\* ------------------------------------------------------------------------

\* a step of the Retry button that runs sendMessage
RetryRuns == RetryLastMessage /\ chat.lastUserMessage # ""

\* the last message of the log
LastMessage(messages) == messages[Len(messages)]

\* C22: a failed request is never issued again by the program itself: only
\* handleSend and the Retry button issue a request. A retry runs a full
\* sendMessage(lastUserMessage): it appends a second user message with the
\* text of the failed one and a different id and asks the webhook with that
\* text, and its success appends one message of Astra after the two.
C22_ManualRetryDuplicates ==
    [][/\ RequestIssued => HandleSend \/ RetryRuns
       /\ RetryRuns
          => /\ chat.messages # <<>>
             /\ LastMessage(chat.messages).isUser
             /\ Len(chat'.messages) = Len(chat.messages) + 1
             /\ SubSeq(chat'.messages, 1, Len(chat.messages)) = chat.messages
             /\ LastMessage(chat'.messages).isUser
             /\ LastMessage(chat'.messages).text
                    = LastMessage(chat.messages).text
             /\ LastMessage(chat'.messages).id # LastMessage(chat.messages).id
             /\ requests' = <<[url |-> WEBHOOK_URL,
                               chatInput |-> chat.lastUserMessage]>>
       /\ (\E i \in DOMAIN requests : WebhookOk(i))
          => /\ Len(chat'.messages) = Len(chat.messages) + 1
             /\ ~LastMessage(chat'.messages).isUser]_vars

\* ------------------------------------------------------------------------
\* The mobile App: sending and the Retry button
\* ------------------------------------------------------------------------

\* what the user types into the TextInput
MobileTyped == {"", "Q3 revenue", "costs"}

\* what the webhook answers
MobileBodies == {"", LongReply}

\* astra-mobile/App.tsx:108-130 and 57-61: sendMessage as the function of a
\* render in which inputText and isLoading had the values given, up to its
\* await of fetch, with the save effect of the render that follows. The
\* guard reads the values of that render; the updates act on the state of
\* now
mobileSendMessage(m, inputOfRender, loadingOfRender) ==
    LET text == trim(inputOfRender)
        userMessage == [id |-> ToString(now), text |-> text, isUser |-> TRUE,
                        timestamp |-> now]
    IN  IF text = "" \/ loadingOfRender THEN m
        ELSE [m EXCEPT !.error = null,
                       !.lastUserMessage = text,
                       !.messages = Append(@, userMessage),
                       !.inputText = "",
                       !.isLoading = TRUE,
                       !.requests = Append(@, [url |-> WEBHOOK_URL,
                                               chatInput |-> text])]

\* the calls of AsyncStorage.setItem after a render that changed the log
MobileLogSaved(before, after) ==
    IF after.messages # before.messages
    THEN asyncOps \o MobileSaves(after, TRUE, FALSE, FALSE)
    ELSE asyncOps

\* astra-mobile/App.tsx:452-462, onChangeText of the TextInput, which is
\* editable while not loading
MobileTypeInput ==
    /\ mobile.pc = "mounted"
    /\ ~mobile.isLoading
    /\ \E t \in MobileTyped :
           /\ t # mobile.inputText
           /\ mobile' = [mobile EXCEPT !.inputText = t]
    /\ UNCHANGED <<asyncStorage, asyncOps, mobileRest>>

\* astra-mobile/App.tsx:463-470: the send button, disabled while the input
\* is blank or a request is under way, calls the sendMessage of the render
\* on screen
MobilePressSend ==
    /\ mobile.pc = "mounted"
    /\ trim(mobile.inputText) # ""
    /\ ~mobile.isLoading
    /\ Cardinality(UserMessages(mobile.messages)) < MaxSends
    /\ mobile' = mobileSendMessage(mobile, mobile.inputText, mobile.isLoading)
    /\ asyncOps' = MobileLogSaved(mobile, mobile')
    /\ UNCHANGED <<asyncStorage, mobileRest>>

\* astra-mobile/App.tsx:169-174 and 437-447: retryLastMessage from the Retry
\* button that is rendered while error is set. The timer keeps the
\* sendMessage of the render in which the button was pressed, with the
\* inputText and the isLoading of that render
MobileRetryLastMessage ==
    /\ mobile.pc = "mounted"
    /\ mobile.error # null
    /\ Len(mobile.timers) < MaxPending
    /\ mobile' =
           IF mobile.lastUserMessage # ""
           THEN [mobile EXCEPT
                    !.inputText = mobile.lastUserMessage,
                    !.timers = Append(@, [inputText |-> mobile.inputText,
                                          isLoading |-> mobile.isLoading])]
           ELSE mobile
    /\ UNCHANGED <<asyncStorage, asyncOps, mobileRest>>

\* astra-mobile/App.tsx:172: the timer of retryLastMessage fires and calls
\* the sendMessage it kept
MobileRetryTimerFires(t) ==
    /\ mobile.pc = "mounted"
    /\ Cardinality(UserMessages(mobile.messages)) < MaxSends
    /\ LET timer == mobile.timers[t]
           later == [mobile EXCEPT !.timers = Without(@, t)]
       IN  mobile' = mobileSendMessage(later, timer.inputText, timer.isLoading)
    /\ asyncOps' = MobileLogSaved(mobile, mobile')
    /\ UNCHANGED <<asyncStorage, mobileRest>>

\* astra-mobile/App.tsx:146-158, 164-166 and 57-61: the response is ok
MobileWebhookOk(i) ==
    /\ mobile.pc = "mounted"
    /\ \E data \in MobileBodies :
           mobile' = [mobile EXCEPT
                         !.messages =
                             Append(@, [id |-> ToString(now + 1),
                                        text |-> IF data # "" THEN data
                                                 ELSE Apology,
                                        isUser |-> FALSE, timestamp |-> now,
                                        isExpanded |-> FALSE]),
                         !.isLoading = FALSE,
                         !.requests = Without(@, i)]
    /\ asyncOps' = MobileLogSaved(mobile, mobile')
    /\ UNCHANGED <<asyncStorage, mobileRest>>

\* astra-mobile/App.tsx:132-144, 157-166: the response is not ok, or fetch
\* rejects
MobileWebhookFails(i) ==
    /\ mobile.pc = "mounted"
    /\ \E m \in {notOkMessage(status) : status \in Statuses} \cup FetchErrors :
           mobile' = [mobile EXCEPT !.error = Some(m),
                                    !.isLoading = FALSE,
                                    !.requests = Without(@, i)]
    /\ UNCHANGED <<asyncStorage, asyncOps, mobileRest>>

NextMobileChat ==
    \/ \E i \in DOMAIN asyncOps : SetItemCompletes(i)
    \/ MobileTypeInput
    \/ MobilePressSend
    \/ MobileRetryLastMessage
    \/ \E t \in DOMAIN mobile.timers : MobileRetryTimerFires(t)
    \/ \E i \in DOMAIN mobile.requests : MobileWebhookOk(i)
    \/ \E i \in DOMAIN mobile.requests : MobileWebhookFails(i)

\* the mobile app after its first launch: nothing was in AsyncStorage, the
\* effects of the first render have run and their calls have ended
MobileStarted ==
    /\ mobile = [MobileInitial EXCEPT !.pc = "mounted", !.load = "done"]
    /\ asyncOps = <<>>
    /\ asyncStorage = [EmptyStorage EXCEPT ![VISUALIZATIONS_KEY] = Some(<<>>),
                                          ![VISUALIZATION_CACHE_KEY] = Some(<<>>)]

InitMobileChat ==
    /\ MobileStarted
    /\ gemini = GeminiIdle
    /\ embedded = EmbeddedUnmounted
    /\ chat = ChatInitial
    /\ messageInput = ""
    /\ requests = <<>>
    /\ storage = EmptyStorage
    /\ location = ChatLocation
    /\ page = PageUnmounted
    /\ generations = <<>>
    /\ retryTimers = <<>>
    /\ content = ""
    /\ pc = "idle"
    /\ locals = NoLocals
    /\ html = ""
    /\ prevContent = ""
    /\ prevHtml = ""
    /\ now = 0
    /\ calledAt = 0
    /\ prevCalledAt = 0
    /\ response = ""
    /\ gvpc = "idle"
    /\ gvError = ""
    /\ cleaned = ""
    /\ htmlContent = ""

SpecMobileChat == InitMobileChat /\ [][NextMobileChat]_vars

\* the timer of a retry fires, the retry having been pressed with the input
\* box empty and no request under way, and nothing having happened since
RetryOfFailedSendFires(t) ==
    /\ mobile.timers[t].inputText = ""
    /\ ~mobile.timers[t].isLoading
    /\ mobile.lastUserMessage # ""
    /\ mobile.inputText = mobile.lastUserMessage
    /\ ~mobile.isLoading
    /\ MobileRetryTimerFires(t)

\* C23: in the mobile app the Retry button after a failed send leads to a new
\* webhook request whose chatInput is lastUserMessage: the sendMessage that
\* runs 100 ms later passes its empty-input guard.
C23_RetryIssuesRequest ==
    [][\A t \in DOMAIN mobile.timers :
           RetryOfFailedSendFires(t)
               => /\ Len(mobile'.requests) = Len(mobile.requests) + 1
                  /\ mobile'.requests[Len(mobile'.requests)].chatInput
                         = mobile.lastUserMessage]_vars

\* ------------------------------------------------------------------------
\* The ids of the messages
\* ------------------------------------------------------------------------

\* C24: the ids of the messages of the log are pairwise distinct in every
\* reachable state; in particular a user message sent one millisecond after
\* a response does not get the id of that response.
C24_DistinctIds ==
    \A i, j \in DOMAIN chat.messages :
        i # j => chat.messages[i].id # chat.messages[j].id

\* ------------------------------------------------------------------------
\* The log grows at its end
\* ------------------------------------------------------------------------

\* the log after the step is the log before it with messages added at its end
LogExtended ==
    /\ Len(chat'.messages) >= Len(chat.messages)
    /\ SubSeq(chat'.messages, 1, Len(chat.messages)) = chat.messages

\* the step adds the message m at the end of the log, and nothing else
Appends(m) == chat'.messages = Append(chat.messages, m)

\* C25: the log of the web chat is append-only. Between two states of a
\* mounted and loaded hook the earlier log is a prefix of the later one; the
\* step that issues a request appends the user message with the text sent;
\* a message of Astra is appended only by a successful response, after the
\* user message it answers, with the response body as its text or the fixed
\* apology when the body is empty.
C25_AppendOnly ==
    [][/\ (chat.pc = "ready" /\ chat'.pc = "ready") => LogExtended
       /\ RequestIssued
          => /\ Len(chat'.messages) = Len(chat.messages) + 1
             /\ LastMessage(chat'.messages).isUser
             /\ LastMessage(chat'.messages).text
                    = requests'[Len(requests')].chatInput
       /\ (/\ chat.pc = "ready"
           /\ Len(chat'.messages) > Len(chat.messages)
           /\ ~LastMessage(chat'.messages).isUser)
          => /\ \E i \in DOMAIN requests : WebhookOk(i)
             /\ LastMessage(chat.messages).isUser
             /\ Len(chat'.messages) = Len(chat.messages) + 1
             /\ \E data \in WebhookBodies :
                    LastMessage(chat'.messages).text
                        = (IF data # "" THEN data ELSE Apology)]_vars

\* a question and the apology that answers an empty body
C25_Witness ==
    /\ chat.pc = "ready"
    /\ Len(chat.messages) = 2
    /\ chat.messages[1].isUser
    /\ ~chat.messages[2].isUser
    /\ chat.messages[2].text = Apology
    /\ requests = <<>>

\* ------------------------------------------------------------------------
\* The cache and the visualized set
\* ------------------------------------------------------------------------

\* the message ids that have a cached document
CachedIds == {chat.visualizationCache[i][1] : i \in DOMAIN chat.visualizationCache}

\* the message ids marked as visualized
VisualizedIds == {chat.visualizedMessages[i] : i \in DOMAIN chat.visualizedMessages}

\* C26: in the web app started from empty storage every message id with a
\* cached visualization is in the visualized set, in every reachable state.
C26_CachedAreVisualized == CachedIds \subseteq VisualizedIds

\* a document is cached for a message that is marked
C26_Witness ==
    /\ CachedIds # {}
    /\ CachedIds \subseteq VisualizedIds

\* ------------------------------------------------------------------------
\* utils/geminiVisualization.ts: detectContentType
\* ------------------------------------------------------------------------

\* the application around a call of a function of the utilities: nothing is
\* mounted and no generator runs
UtilsRest ==
    /\ embedded = EmbeddedUnmounted
    /\ chat = ChatInitial
    /\ messageInput = ""
    /\ requests = <<>>
    /\ storage = EmptyStorage
    /\ location = ChatLocation
    /\ page = PageUnmounted
    /\ generations = <<>>
    /\ retryTimers = <<>>
    /\ mobile = MobileInitial
    /\ asyncStorage = EmptyStorage
    /\ asyncOps = <<>>
    /\ content = ""
    /\ pc = "idle"
    /\ locals = NoLocals
    /\ html = ""
    /\ prevContent = ""
    /\ prevHtml = ""
    /\ now = 0
    /\ calledAt = 0
    /\ prevCalledAt = 0
    /\ response = ""
    /\ gvpc = "idle"
    /\ gvError = ""
    /\ cleaned = ""
    /\ htmlContent = ""

\* the variables a call of a utility leaves alone
utilsRest ==
    <<embedded, chatVars, pageVars, mobileVars, mockVars, cleanVars>>

\* geminiVisualization.ts:125-126
financialKeywords ==
    <<"revenue", "profit", "loss", "cash flow", "assets", "liabilities",
      "expenses", "$", "financial">>

meetingKeywords ==
    <<"meeting", "agenda", "action items", "decisions", "participants",
      "summary", "next steps">>

\* geminiVisualization.ts:130-134, keywords.reduce((score, keyword) =>
\* score + (lowerContent.includes(keyword) ? 1 : 0), 0)
RECURSIVE keywordScore(_, _)
keywordScore(keywords, lowerContent) ==
    IF keywords = <<>> THEN 0
    ELSE keywordScore(SubSeq(keywords, 1, Len(keywords) - 1), lowerContent)
             + (IF includes(lowerContent, keywords[Len(keywords)]) THEN 1
                ELSE 0)

\* a detectContentType whose tests admit a score equal to the other
detectContentType_AtLeast(text) ==
    LET lowerContent == toLowerCase(text)
        financialScore == keywordScore(financialKeywords, lowerContent)
        meetingScore == keywordScore(meetingKeywords, lowerContent)
    IN  IF financialScore >= meetingScore /\ financialScore > 2
        THEN "financial"
        ELSE IF meetingScore >= financialScore /\ meetingScore > 2
        THEN "meeting"
        ELSE "general"

\* geminiVisualization.ts:124-139
detectContentType(text) ==
    LET lowerContent == toLowerCase(text)
        financialScore == keywordScore(financialKeywords, lowerContent)
        meetingScore == keywordScore(meetingKeywords, lowerContent)
    IN  IF financialScore > meetingScore /\ financialScore > 2
        THEN "financial"
        ELSE IF meetingScore > financialScore /\ meetingScore > 2
        THEN "meeting"
        ELSE "general"

\* pieces of text: each holds one keyword, some in capitals or inside a word
DetectPieces ==
    <<"Revenue", "profit", "glossary", "$5", "Meeting", "AGENDA", "summary",
      "next steps">>

\* the pieces chosen, in their order, each followed by a blank
RECURSIVE JoinChosen(_, _)
JoinChosen(pieces, chosen) ==
    IF pieces = <<>> THEN ""
    ELSE (IF Len(pieces) \in chosen THEN pieces[Len(pieces)] \o " " ELSE "")
             \o JoinChosen(SubSeq(pieces, 1, Len(pieces) - 1), chosen)

DetectContents ==
    {JoinChosen(DetectPieces, chosen) : chosen \in SUBSET DOMAIN DetectPieces}

InitDetect ==
    /\ \E c \in DetectContents :
           gemini = [GeminiIdle EXCEPT !.call = "detectContentType",
                                       !.pc = "called", !.content = c]
    /\ UtilsRest

\* geminiVisualization.ts:124-139: the call returns
DetectContentTypeReturns ==
    /\ gemini.call = "detectContentType"
    /\ gemini.pc = "called"
    /\ gemini' = [gemini EXCEPT
                     !.pc = "done",
                     !.outcome = Some([kind |-> "returned",
                                       value |-> detectContentType(gemini.content)])]
    /\ UNCHANGED utilsRest

NextDetect == DetectContentTypeReturns

SpecDetect == InitDetect /\ [][NextDetect]_vars

\* the number of keywords of the set that occur in s, whatever the case
MatchCount(keywords, s) == Cardinality({k \in keywords : OccursAnyCase(k, s)})

FinancialCount(s) ==
    MatchCount({"revenue", "profit", "loss", "cash flow", "assets",
                "liabilities", "expenses", "$", "financial"}, s)

MeetingCount(s) ==
    MatchCount({"meeting", "agenda", "action items", "decisions",
                "participants", "summary", "next steps"}, s)

\* C29: detectContentType always returns one of its three values:
\* 'financial' exactly when more than 2 financial keywords are matched and
\* more than meeting keywords, 'meeting' exactly when more than 2 meeting
\* keywords are matched and more than financial keywords, and 'general' in
\* every other case, ties and counts of 2 or less included.
C29_ContentType ==
    (gemini.call = "detectContentType" /\ gemini.pc = "done")
        => LET f == FinancialCount(gemini.content)
               m == MeetingCount(gemini.content)
               r == the(gemini.outcome)
           IN  /\ r.kind = "returned"
               /\ r.value \in {"financial", "meeting", "general"}
               /\ r.value = "financial" <=> (f > 2 /\ f > m)
               /\ r.value = "meeting" <=> (m > 2 /\ m > f)
               /\ r.value = "general" <=> ~(f > 2 /\ f > m) /\ ~(m > 2 /\ m > f)

\* a tie of three keywords on each side, answered 'general'
C29_Witness ==
    /\ gemini.call = "detectContentType"
    /\ gemini.pc = "done"
    /\ FinancialCount(gemini.content) = 3
    /\ MeetingCount(gemini.content) = 3
    /\ the(gemini.outcome).value = "general"

\* ------------------------------------------------------------------------
\* utils/geminiVisualization.ts: callGeminiAPI
\* ------------------------------------------------------------------------

\* the outcomes of a call
Returned(value) == Some([kind |-> "returned", value |-> value])
Thrown(message) == Some([kind |-> "thrown", value |-> message])

\* geminiVisualization.ts:142, !apiKey || apiKey.trim() === '' ||
\* apiKey === 'undefined'
geminiKeyMissing(apiKey) ==
    apiKey = "" \/ trim(apiKey) = "" \/ apiKey = "undefined"

\* the keys of the calls modelled: none, blank, the text a build without the
\* variable leaves, and two keys that pass the test
GeminiKeys == {"", "  ", "undefined", "AIzaSyA-key", " undefined"}

\* the JSON bodies of the replies modelled; a field that is absent is null
GeminiParts ==
    {null, Some(<<>>), Some(<<[text |-> Some("<html>A</html>")]>>),
     Some(<<[text |-> null]>>),
     Some(<<[text |-> Some("<html>A</html>")], [text |-> Some("B")]>>)}

GeminiCandidates ==
    [finishReason : {null, Some("STOP"), Some("SAFETY"), Some("MAX_TOKENS")},
     content : {null} \cup {Some([parts |-> p]) : p \in GeminiParts}]

GoodCandidate ==
    [finishReason |-> Some("STOP"),
     content |-> Some([parts |-> Some(<<[text |-> Some("<html>C</html>")]>>)])]

GeminiData ==
    [error : {null, Some([message |-> Some("API key not valid")]),
              Some([message |-> null])},
     candidates : {null, Some(<<>>)}
                      \cup {Some(<<c>>) : c \in GeminiCandidates}
                      \cup {Some(<<c, GoodCandidate>>) : c \in GeminiCandidates}]

\* how the fetch of the call ends: it rejects, or it resolves with a
\* response whose body is JSON or is not
GeminiReplies ==
    {[kind |-> "rejected", ok |-> FALSE, status |-> 0, statusText |-> "",
      data |-> null]}
    \cup {[kind |-> "response", ok |-> TRUE, status |-> 200,
           statusText |-> "OK", data |-> Some(d)] : d \in GeminiData}
    \cup {[kind |-> "response", ok |-> TRUE, status |-> 200,
           statusText |-> "OK", data |-> null]}
    \cup {[kind |-> "response", ok |-> FALSE, status |-> 400,
           statusText |-> "Bad Request",
           data |-> Some([error |-> Some([message |-> Some("API key not valid")]),
                          candidates |-> null])],
          [kind |-> "response", ok |-> FALSE, status |-> 503,
           statusText |-> "Service Unavailable",
           data |-> Some([error |-> null, candidates |-> Some(<<GoodCandidate>>)])]}

\* a callGeminiAPI that does not look at finishReason MAX_TOKENS
geminiResult_Truncated(reply) ==
    IF reply.kind = "rejected" THEN Thrown("Failed to fetch")
    ELSE IF ~reply.ok
    THEN Thrown("Gemini API error: " \o ToString(reply.status) \o " - "
                    \o reply.statusText)
    ELSE IF reply.data = null
    THEN Thrown("Unexpected token < in JSON at position 0")
    ELSE LET data == the(reply.data)
         IN  IF data.error # null
             THEN Thrown("Gemini API error: "
                             \o (IF Truthy(the(data.error).message)
                                 THEN the(the(data.error).message)
                                 ELSE "Unknown error"))
             ELSE IF data.candidates = null \/ Len(the(data.candidates)) = 0
             THEN Thrown("No candidates returned from Gemini API. This may be due to safety filters or prompt complexity.")
             ELSE LET candidate == the(data.candidates)[1]
                  IN  IF candidate.finishReason = Some("SAFETY")
                      THEN Thrown("Content was blocked by Gemini safety filters. Try simplifying your request.")
                      ELSE IF \/ candidate.content = null
                              \/ the(candidate.content).parts = null
                              \/ Len(the(the(candidate.content).parts)) = 0
                      THEN Thrown("Invalid response structure from Gemini API. Finish reason: "
                                      \o (IF Truthy(candidate.finishReason)
                                          THEN the(candidate.finishReason)
                                          ELSE "unknown"))
                      ELSE Returned(the(the(candidate.content).parts)[1].text)

\* geminiVisualization.ts:173-219: callGeminiAPI after its await of fetch
geminiResult(reply) ==
    IF reply.kind = "rejected" THEN Thrown("Failed to fetch")
    ELSE IF ~reply.ok
    THEN Thrown("Gemini API error: " \o ToString(reply.status) \o " - "
                    \o reply.statusText)
    ELSE IF reply.data = null
    THEN Thrown("Unexpected token < in JSON at position 0")
    ELSE LET data == the(reply.data)
         IN  IF data.error # null
             THEN Thrown("Gemini API error: "
                             \o (IF Truthy(the(data.error).message)
                                 THEN the(the(data.error).message)
                                 ELSE "Unknown error"))
             ELSE IF data.candidates = null \/ Len(the(data.candidates)) = 0
             THEN Thrown("No candidates returned from Gemini API. This may be due to safety filters or prompt complexity.")
             ELSE LET candidate == the(data.candidates)[1]
                  IN  IF candidate.finishReason = Some("SAFETY")
                      THEN Thrown("Content was blocked by Gemini safety filters. Try simplifying your request.")
                      ELSE IF candidate.finishReason = Some("MAX_TOKENS")
                      THEN Thrown("The visualization was too complex and exceeded the token limit. Please try the Quick visualization instead, or ask for a simpler analysis.")
                      ELSE IF \/ candidate.content = null
                              \/ the(candidate.content).parts = null
                              \/ Len(the(the(candidate.content).parts)) = 0
                      THEN Thrown("Invalid response structure from Gemini API. Finish reason: "
                                      \o (IF Truthy(candidate.finishReason)
                                          THEN the(candidate.finishReason)
                                          ELSE "unknown"))
                      ELSE Returned(the(the(candidate.content).parts)[1].text)

InitGemini ==
    /\ \E k \in GeminiKeys :
           gemini = [GeminiIdle EXCEPT !.call = "callGeminiAPI",
                                       !.pc = "called", !.apiKey = k]
    /\ UtilsRest

\* geminiVisualization.ts:141-171: callGeminiAPI up to its await of fetch
CallGeminiAPI ==
    /\ gemini.call = "callGeminiAPI"
    /\ gemini.pc = "called"
    /\ gemini' =
           IF geminiKeyMissing(gemini.apiKey)
           THEN [gemini EXCEPT
                    !.pc = "done",
                    !.outcome = Thrown("Gemini API key not configured. The visualization feature requires a Google AI Studio API key. Please contact your administrator to configure the VITE_GEMINI_API_KEY environment variable.")]
           ELSE [gemini EXCEPT !.pc = "fetching", !.fetches = @ + 1]
    /\ UNCHANGED utilsRest

\* geminiVisualization.ts:154-219: the fetch settles and the call ends
GeminiFetchSettles ==
    /\ gemini.call = "callGeminiAPI"
    /\ gemini.pc = "fetching"
    /\ \E reply \in GeminiReplies :
           gemini' = [gemini EXCEPT !.pc = "done",
                                    !.reply = Some(reply),
                                    !.outcome = geminiResult(reply)]
    /\ UNCHANGED utilsRest

NextGemini == CallGeminiAPI \/ GeminiFetchSettles

SpecGemini == InitGemini /\ [][NextGemini]_vars

\* the reply is one the claim lets the call return for
ReplyUsable(reply) ==
    /\ reply.kind = "response"
    /\ reply.ok
    /\ reply.data # null
    /\ the(reply.data).error = null
    /\ the(reply.data).candidates # null
    /\ Len(the(the(reply.data).candidates)) >= 1
    /\ LET first == the(the(reply.data).candidates)[1]
       IN  /\ first.finishReason \notin {Some("SAFETY"), Some("MAX_TOKENS")}
           /\ first.content # null
           /\ the(first.content).parts # null
           /\ Len(the(the(first.content).parts)) >= 1

\* C27: callGeminiAPI issues no request and throws when the key is empty,
\* blank or the text 'undefined'; otherwise it issues one request and
\* returns the text of the first part of the first candidate exactly when
\* the response is ok, carries no error, has a candidate whose finishReason
\* is neither SAFETY nor MAX_TOKENS and whose content has a part, and throws
\* in every other case.
C27_CallGeminiAPI ==
    (gemini.call = "callGeminiAPI" /\ gemini.pc = "done")
        => LET r == the(gemini.outcome)
               keyMissing == \/ gemini.apiKey = ""
                             \/ \A i \in 1..Len(gemini.apiKey) :
                                    SubSeq(gemini.apiKey, i, i) \in WhiteSpace
                             \/ gemini.apiKey = "undefined"
           IN  IF keyMissing
               THEN gemini.fetches = 0 /\ gemini.reply = null
                        /\ r.kind = "thrown"
               ELSE /\ gemini.fetches = 1
                    /\ gemini.reply # null
                    /\ r.kind \in {"returned", "thrown"}
                    /\ r.kind = "returned" <=> ReplyUsable(the(gemini.reply))
                    /\ r.kind = "returned"
                           => r.value =
                                  the(the(the(the(the(gemini.reply).data).candidates)[1].content).parts)[1].text

\* the call returned the text of the first part of a reply
C27_Witness ==
    /\ gemini.call = "callGeminiAPI"
    /\ gemini.pc = "done"
    /\ gemini.fetches = 1
    /\ the(gemini.outcome) = [kind |-> "returned",
                              value |-> Some("<html>A</html>")]

\* ------------------------------------------------------------------------
\* utils/geminiVisualization.ts: generateFallbackVisualization
\* ------------------------------------------------------------------------

\* geminiVisualization.ts:236-497, the text of the fallback document between
\* two interpolations
utilsHead ==
    "<!DOCTYPE html>\n" \o
    "<html lang=\"en\">\n" \o
    "<head>\n" \o
    "    <meta charset=\"UTF-8\">\n" \o
    "    <meta name=\"viewport\" content=\"width=device-width, initial-scale=1.0\">\n" \o
    "    <title>Content Summary</title>\n" \o
    "    <style>\n" \o
    "        * {\n" \o
    "            margin: 0;\n" \o
    "            padding: 0;\n" \o
    "            box-sizing: border-box;\n" \o
    "        }\n" \o
    "        \n" \o
    "        body {\n" \o
    "            font-family: -apple-system, BlinkMacSystemFont, 'Segoe UI', Roboto, sans-serif;\n" \o
    "            background: linear-gradient(135deg, #1a1a2e 0%, #16213e 100%);\n" \o
    "            color: white;\n" \o
    "            min-height: 100vh;\n" \o
    "            padding: 8px;\n" \o
    "            font-size: 16px;\n" \o
    "            line-height: 1.6;\n" \o
    "            margin: 0;\n" \o
    "            width: 100vw;\n" \o
    "            overflow-x: hidden;\n" \o
    "        }\n" \o
    "        \n" \o
    "        .container {\n" \o
    "            max-width: 100vw;\n" \o
    "            margin: 0 auto;\n" \o
    "            padding: 0;\n" \o
    "            box-sizing: border-box;\n" \o
    "        }\n" \o
    "        \n" \o
    "        .header {\n" \o
    "            text-align: center;\n" \o
    "            margin-bottom: 15px;\n" \o
    "            padding: 15px 0;\n" \o
    "            border-bottom: 2px solid #FF4500;\n" \o
    "        }\n" \o
    "        \n" \o
    "        .header h1 {\n" \o
    "            font-size: 1.4rem;\n" \o
    "            margin-bottom: 6px;\n" \o
    "            background: linear-gradient(45deg, #FF4500, #FF6B35);\n" \o
    "            -webkit-background-clip: text;\n" \o
    "            -webkit-text-fill-color: transparent;\n" \o
    "            background-clip: text;\n" \o
    "            line-height: 1.2;\n" \o
    "        }\n" \o
    "        \n" \o
    "        .header p {\n" \o
    "            font-size: 0.8rem;\n" \o
    "            opacity: 0.8;\n" \o
    "        }\n" \o
    "        \n" \o
    "        .content-card {\n" \o
    "            background: rgba(255, 255, 255, 0.1);\n" \o
    "            border-radius: 15px;\n" \o
    "            padding: 15px;\n" \o
    "            margin-bottom: 15px;\n" \o
    "            border: 1px solid rgba(255, 69, 0, 0.3);\n" \o
    "            backdrop-filter: blur(10px);\n" \o
    "            width: 100%;\n" \o
    "            box-sizing: border-box;\n" \o
    "        }\n" \o
    "        \n" \o
    "        .content-text {\n" \o
    "            line-height: 1.6;\n" \o
    "            font-size: 0.85rem;\n" \o
    "            white-space: pre-wrap;\n" \o
    "            word-wrap: break-word;\n" \o
    "            max-height: 250px;\n" \o
    "            overflow-y: auto;\n" \o
    "        }\n" \o
    "        \n" \o
    "        .api-notice {\n" \o
    "            background: linear-gradient(45deg, #4CAF50, #45a049);\n" \o
    "            border-radius: 10px;\n" \o
    "            padding: 12px;\n" \o
    "            margin-bottom: 15px;\n" \o
    "            text-align: center;\n" \o
    "            width: 100%;\n" \o
    "            box-sizing: border-box;\n" \o
    "        }\n" \o
    "        \n" \o
    "        .api-notice h3 {\n" \o
    "            margin-bottom: 6px;\n" \o
    "            font-size: 1rem;\n" \o
    "        }\n" \o
    "        \n" \o
    "        .api-notice p {\n" \o
    "            opacity: 0.9;\n" \o
    "            font-size: 0.75rem;\n" \o
    "            margin-bottom: 8px;\n" \o
    "        }\n" \o
    "        \n" \o
    "        .insights-grid {\n" \o
    "            display: grid;\n" \o
    "            grid-template-columns: 1fr;\n" \o
    "            gap: 12px;\n" \o
    "            margin-top: 15px;\n" \o
    "            width: 100%;\n" \o
    "        }\n" \o
    "        \n" \o
    "        .insight-card {\n" \o
    "            background: rgba(76, 175, 80, 0.1);\n" \o
    "            border: 1px solid #4CAF50;\n" \o
    "            border-radius: 10px;\n" \o
    "            padding: 12px;\n" \o
    "            width: 100%;\n" \o
    "            box-sizing: border-box;\n" \o
    "        }\n" \o
    "        \n" \o
    "        .insight-title {\n" \o
    "            color: #4CAF50;\n" \o
    "            font-weight: bold;\n" \o
    "            margin-bottom: 6px;\n" \o
    "            font-size: 0.9rem;\n" \o
    "        }\n" \o
    "        \n" \o
    "        .insight-list {\n" \o
    "            list-style: none;\n" \o
    "            padding: 0;\n" \o
    "        }\n" \o
    "        \n" \o
    "        .insight-list li {\n" \o
    "            padding: 6px 0;\n" \o
    "            border-bottom: 1px solid rgba(255,255,255,0.1);\n" \o
    "            font-size: 0.8rem;\n" \o
    "        }\n" \o
    "        \n" \o
    "        .insight-list li:last-child {\n" \o
    "            border-bottom: none;\n" \o
    "        }\n" \o
    "        \n" \o
    "        .stats {\n" \o
    "            display: grid;\n" \o
    "            grid-template-columns: repeat(2, 1fr);\n" \o
    "            gap: 10px;\n" \o
    "            margin-top: 15px;\n" \o
    "            width: 100%;\n" \o
    "        }\n" \o
    "        \n" \o
    "        .stat-card {\n" \o
    "            background: rgba(255, 69, 0, 0.1);\n" \o
    "            border: 1px solid #FF4500;\n" \o
    "            border-radius: 10px;\n" \o
    "            padding: 12px;\n" \o
    "            text-align: center;\n" \o
    "            width: 100%;\n" \o
    "            box-sizing: border-box;\n" \o
    "        }\n" \o
    "        \n" \o
    "        .stat-number {\n" \o
    "            font-size: 1.2rem;\n" \o
    "            font-weight: bold;\n" \o
    "            color: #FF4500;\n" \o
    "            margin-bottom: 3px;\n" \o
    "        }\n" \o
    "        \n" \o
    "        .stat-label {\n" \o
    "            font-size: 0.7rem;\n" \o
    "            opacity: 0.8;\n" \o
    "        }\n" \o
    "        \n" \o
    "        @media (min-width: 768px) {\n" \o
    "            body {\n" \o
    "                padding: 20px;\n" \o
    "                font-size: 18px;\n" \o
    "            }\n" \o
    "            \n" \o
    "            .header h1 {\n" \o
    "                font-size: 2.5rem;\n" \o
    "                margin-bottom: 10px;\n" \o
    "            }\n" \o
    "            \n" \o
    "            .header p {\n" \o
    "                font-size: 1rem;\n" \o
    "            }\n" \o
    "            \n" \o
    "            .content-card {\n" \o
    "                padding: 30px;\n" \o
    "                margin-bottom: 30px;\n" \o
    "            }\n" \o
    "            \n" \o
    "            .content-text {\n" \o
    "                font-size: 1.1rem;\n" \o
    "                line-height: 1.8;\n" \o
    "                max-height: none;\n" \o
    "            }\n" \o
    "            \n" \o
    "            .api-notice {\n" \o
    "                padding: 20px;\n" \o
    "                margin-bottom: 30px;\n" \o
    "            }\n" \o
    "            \n" \o
    "            .api-notice h3 {\n" \o
    "                font-size: 1.3rem;\n" \o
    "                margin-bottom: 10px;\n" \o
    "            }\n" \o
    "            \n" \o
    "            .api-notice p {\n" \o
    "                font-size: 0.95rem;\n" \o
    "                margin-bottom: 15px;\n" \o
    "            }\n" \o
    "            \n" \o
    "            .insights-grid {\n" \o
    "                grid-template-columns: repeat(auto-fit, minmax(250px, 1fr));\n" \o
    "                gap: 20px;\n" \o
    "                margin-top: 30px;\n" \o
    "            }\n" \o
    "            \n" \o
    "            .insight-card {\n" \o
    "                padding: 20px;\n" \o
    "            }\n" \o
    "            \n" \o
    "            .insight-title {\n" \o
    "                font-size: 1.1rem;\n" \o
    "                margin-bottom: 10px;\n" \o
    "            }\n" \o
    "            \n" \o
    "            .insight-list li {\n" \o
    "                padding: 5px 0;\n" \o
    "                font-size: 1rem;\n" \o
    "            }\n" \o
    "            \n" \o
    "            .stats {\n" \o
    "                grid-template-columns: repeat(auto-fit, minmax(200px, 1fr));\n" \o
    "                gap: 20px;\n" \o
    "                margin-top: 30px;\n" \o
    "            }\n" \o
    "            \n" \o
    "            .stat-card {\n" \o
    "                padding: 20px;\n" \o
    "            }\n" \o
    "            \n" \o
    "            .stat-number {\n" \o
    "                font-size: 2rem;\n" \o
    "                margin-bottom: 5px;\n" \o
    "            }\n" \o
    "            \n" \o
    "            .stat-label {\n" \o
    "                font-size: 0.9rem;\n" \o
    "            }\n" \o
    "        }\n" \o
    "    </style>\n" \o
    "</head>\n" \o
    "<body>\n" \o
    "    <div class=\"container\">\n" \o
    "        <div class=\"header\">\n" \o
    "            <h1>(U+1F680) Content Summary</h1>\n" \o
    "            <p>RocketHub Intelligence Dashboard</p>\n" \o
    "        </div>\n" \o
    "        \n" \o
    "        <div class=\"api-notice\">\n" \o
    "            <h3>(U+1F4CA) Content Analysis Dashboard</h3>\n" \o
    "            <p>This visualization provides comprehensive analysis of your content. Enhanced AI-powered visualizations with charts and graphs are available when API keys are configured.</p>\n" \o
    "        </div>\n" \o
    "        \n" \o
    "        <div class=\"content-card\">\n" \o
    "            <h2 style=\"color: #FF4500; margin-bottom: 20px;\">(U+1F4C4) Full Content</h2>\n" \o
    "            <div class=\"content-text\">"

\* geminiVisualization.ts:497-501, the text of the fallback document between
\* two interpolations
utilsAfterContent ==
    "</div>\n" \o
    "        </div>\n" \o
    "        \n" \o
    "        <div class=\"insights-grid\">\n" \o
    "            "

\* geminiVisualization.ts:501-505, the text of the fallback document between
\* two interpolations
utilsNumbersOpen ==
    "\n" \o
    "            <div class=\"insight-card\">\n" \o
    "                <div class=\"insight-title\">(U+1F4B0) Financial Data</div>\n" \o
    "                <ul class=\"insight-list\">\n" \o
    "                    "

\* geminiVisualization.ts:505-506, the text of the fallback document between
\* two interpolations
utilsNumbersMid ==
    "\n" \o
    "                    "

\* geminiVisualization.ts:506-509, the text of the fallback document between
\* two interpolations
utilsNumbersClose ==
    "\n" \o
    "                </ul>\n" \o
    "            </div>\n" \o
    "            "

\* geminiVisualization.ts:509-511, the text of the fallback document between
\* two interpolations
utilsAfterNumbers ==
    "\n" \o
    "            \n" \o
    "            "

\* geminiVisualization.ts:511-515, the text of the fallback document between
\* two interpolations
utilsPercentagesOpen ==
    "\n" \o
    "            <div class=\"insight-card\">\n" \o
    "                <div class=\"insight-title\">(U+1F4C8) Percentages</div>\n" \o
    "                <ul class=\"insight-list\">\n" \o
    "                    "

\* geminiVisualization.ts:515-518, the text of the fallback document between
\* two interpolations
utilsPercentagesClose ==
    "\n" \o
    "                </ul>\n" \o
    "            </div>\n" \o
    "            "

\* geminiVisualization.ts:518-520, the text of the fallback document between
\* two interpolations
utilsAfterPercentages ==
    "\n" \o
    "            \n" \o
    "            "

\* geminiVisualization.ts:520-524, the text of the fallback document between
\* two interpolations
utilsDatesOpen ==
    "\n" \o
    "            <div class=\"insight-card\">\n" \o
    "                <div class=\"insight-title\">(U+1F4C5) Important Dates</div>\n" \o
    "                <ul class=\"insight-list\">\n" \o
    "                    "

\* geminiVisualization.ts:524-527, the text of the fallback document between
\* two interpolations
utilsDatesClose ==
    "\n" \o
    "                </ul>\n" \o
    "            </div>\n" \o
    "            "

\* geminiVisualization.ts:527-532, the text of the fallback document between
\* two interpolations
utilsAfterDates ==
    "\n" \o
    "            \n" \o
    "            <div class=\"insight-card\">\n" \o
    "                <div class=\"insight-title\">(U+1F50D) Key Insights</div>\n" \o
    "                <ul class=\"insight-list\">\n" \o
    "                    <li>Content Type: "

\* geminiVisualization.ts:532-533, the text of the fallback document between
\* two interpolations
utilsAfterType ==
    "</li>\n" \o
    "                    <li>Complexity: "

\* geminiVisualization.ts:533-534, the text of the fallback document between
\* two interpolations
utilsAfterComplexity ==
    "</li>\n" \o
    "                    <li>Reading Time: ~"

\* geminiVisualization.ts:534-535, the text of the fallback document between
\* two interpolations
utilsAfterReading ==
    " min</li>\n" \o
    "                    <li>Structure: "

\* geminiVisualization.ts:535-541, the text of the fallback document between
\* two interpolations
utilsAfterStructure ==
    " sections</li>\n" \o
    "                </ul>\n" \o
    "            </div>\n" \o
    "        </div>\n" \o
    "        <div class=\"stats\">\n" \o
    "            <div class=\"stat-card\">\n" \o
    "                <div class=\"stat-number\">"

\* geminiVisualization.ts:541-545, the text of the fallback document between
\* two interpolations
utilsAfterWords ==
    "</div>\n" \o
    "                <div class=\"stat-label\">Words</div>\n" \o
    "            </div>\n" \o
    "            <div class=\"stat-card\">\n" \o
    "                <div class=\"stat-number\">"

\* geminiVisualization.ts:545-549, the text of the fallback document between
\* two interpolations
utilsAfterLines ==
    "</div>\n" \o
    "                <div class=\"stat-label\">Lines</div>\n" \o
    "            </div>\n" \o
    "            <div class=\"stat-card\">\n" \o
    "                <div class=\"stat-number\">"

\* geminiVisualization.ts:549-553, the text of the fallback document between
\* two interpolations
utilsAfterSentences ==
    "</div>\n" \o
    "                <div class=\"stat-label\">Sentences</div>\n" \o
    "            </div>\n" \o
    "            <div class=\"stat-card\">\n" \o
    "                <div class=\"stat-number\">"

\* geminiVisualization.ts:553-560, the text of the fallback document between
\* two interpolations
utilsTail ==
    "</div>\n" \o
    "                <div class=\"stat-label\">Characters</div>\n" \o
    "            </div>\n" \o
    "        </div>\n" \o
    "    </div>\n" \o
    "</body>\n" \o
    "</html>"


Digits == {"0", "1", "2", "3", "4", "5", "6", "7", "8", "9"}

\* the character of s at position i, the empty text outside s
charAt(s, i) == IF i >= 1 /\ i <= Len(s) THEN SubSeq(s, i, i) ELSE ""

\* the end of the longest run of characters of the set that starts at i
\* (i - 1 when the character at i is not of the set)
runEnd(s, i, set) ==
    CHOOSE j \in (i - 1)..Len(s) :
        /\ \A k \in i..j : charAt(s, k) \in set
        /\ charAt(s, j + 1) \notin set

allDigits(s, a, b) == b <= Len(s) /\ \A k \in a..b : charAt(s, k) \in Digits

\* geminiVisualization.ts:232, /\$?[\d,]+\.?\d*/ tried at position i: the
\* end of the match, 0 when there is none
numberMatchEnd(s, i) ==
    LET j == IF charAt(s, i) = "$" THEN i + 1 ELSE i
        a == runEnd(s, j, Digits \cup {","})
        b == IF charAt(s, a + 1) = "." THEN a + 1 ELSE a
    IN  IF a >= j THEN runEnd(s, b + 1, Digits) ELSE 0

\* geminiVisualization.ts:233, /\d+%/ tried at position i
percentageMatchEnd(s, i) ==
    LET a == runEnd(s, i, Digits)
    IN  IF a >= i /\ charAt(s, a + 1) = "%" THEN a + 1 ELSE 0

\* geminiVisualization.ts:234, /\d{1,2}\/\d{1,2}\/\d{4}|\d{4}-\d{2}-\d{2}/
\* tried at position i
dateMatchEnd(s, i) ==
    LET slashed == {<<a, b>> \in {1, 2} \X {1, 2} :
                       /\ allDigits(s, i, i + a - 1)
                       /\ charAt(s, i + a) = "/"
                       /\ allDigits(s, i + a + 1, i + a + b)
                       /\ charAt(s, i + a + b + 1) = "/"
                       /\ allDigits(s, i + a + b + 2, i + a + b + 5)}
    IN  IF slashed # {}
        THEN LET ab == CHOOSE x \in slashed : TRUE
             IN  i + ab[1] + ab[2] + 5
        ELSE IF /\ allDigits(s, i, i + 3)
                /\ charAt(s, i + 4) = "-"
                /\ allDigits(s, i + 5, i + 6)
                /\ charAt(s, i + 7) = "-"
                /\ allDigits(s, i + 8, i + 9)
        THEN i + 9
        ELSE 0

matchEnd(kind, s, i) ==
    IF kind = "numbers" THEN numberMatchEnd(s, i)
    ELSE IF kind = "percentages" THEN percentageMatchEnd(s, i)
    ELSE dateMatchEnd(s, i)

\* String.prototype.match with a /g pattern, from position i on: the
\* leftmost match, then the matches after its end
RECURSIVE matchAll(_, _, _)
matchAll(kind, s, i) ==
    IF i > Len(s) THEN <<>>
    ELSE LET e == matchEnd(kind, s, i)
         IN  IF e >= i
             THEN <<SubSeq(s, i, e)>> \o matchAll(kind, s, e + 1)
             ELSE matchAll(kind, s, i + 1)

\* String.prototype.toUpperCase (ASCII letters of the model)
RECURSIVE toUpperCase(_)
toUpperCase(s) ==
    IF s = "" THEN ""
    ELSE LET c == SubSeq(s, 1, 1)
             up == {u \in DOMAIN UpperToLower : UpperToLower[u] = c}
         IN  (IF up = {} THEN c ELSE CHOOSE u \in up : TRUE)
                 \o toUpperCase(Tail(s))

\* geminiVisualization.ts:505, items.slice(0, 5).map(x => <li>x</li>).join('')
RECURSIVE listItems(_)
listItems(items) ==
    IF items = <<>> THEN ""
    ELSE "<li>" \o items[1] \o "</li>"
             \o listItems(SubSeq(Tail(items), 1,
                                 IF Len(items) > 5 THEN 4 ELSE Len(items) - 1))

\* geminiVisualization.ts:228, content.split(/[.!?]+/).filter(s => s.trim())
sentenceCount(s) ==
    Cardinality({p \in splitPieces(s, {".", "!", "?"}) :
                    trim(SubSeq(s, p[1], p[2])) # ""})

\* geminiVisualization.ts:497, content.replace(/</g, '<').replace(/>/g, '>')
utilsContentText(text) == replaceAll(replaceAll(text, "<", "<"), ">", ">")

\* geminiVisualization.ts:223-560
utilsGenerateFallbackVisualization(text) ==
    LET contentType == detectContentType(text)
        lineCount == fallbackLineCount(text)
        sentences == sentenceCount(text)
        words == fallbackWordCount(text)
        numbers == matchAll("numbers", text, 1)
        percentages == matchAll("percentages", text, 1)
        dates == matchAll("dates", text, 1)
    IN  utilsHead \o utilsContentText(text) \o utilsAfterContent
            \o (IF Len(numbers) > 0
                THEN utilsNumbersOpen \o listItems(numbers) \o utilsNumbersMid
                         \o (IF Len(numbers) > 5
                             THEN "<li>...and " \o ToString(Len(numbers) - 5)
                                      \o " more</li>"
                             ELSE "")
                         \o utilsNumbersClose
                ELSE "")
            \o utilsAfterNumbers
            \o (IF Len(percentages) > 0
                THEN utilsPercentagesOpen \o listItems(percentages)
                         \o utilsPercentagesClose
                ELSE "")
            \o utilsAfterPercentages
            \o (IF Len(dates) > 0
                THEN utilsDatesOpen \o listItems(dates) \o utilsDatesClose
                ELSE "")
            \o utilsAfterDates \o toUpperCase(contentType) \o utilsAfterType
            \o (IF sentences > 20 THEN "High"
                ELSE IF sentences > 10 THEN "Medium" ELSE "Low")
            \o utilsAfterComplexity \o ToString((words + 199) \div 200)
            \o utilsAfterReading \o ToString(lineCount)
            \o utilsAfterStructure \o ToString(words)
            \o utilsAfterWords \o ToString(lineCount)
            \o utilsAfterLines \o ToString(sentences)
            \o utilsAfterSentences \o ToString(Len(text)) \o utilsTail

\* pieces of content: amounts, percentages, dates, markup and comparisons
FallbackPieces ==
    <<"Revenue $1,200.5", "profit 15%.", "loss 3%", "due 1/31/2024!",
      "2024-01-05", "</html>", "<script>", "a > b?">>

FallbackContents ==
    {JoinChosen(FallbackPieces, chosen) :
         chosen \in SUBSET DOMAIN FallbackPieces}

InitFallback ==
    /\ \E c \in FallbackContents :
           gemini = [GeminiIdle EXCEPT !.call = "generateFallbackVisualization",
                                       !.pc = "called", !.content = c]
    /\ UtilsRest

\* geminiVisualization.ts:223-560: the call returns
GenerateFallbackReturns ==
    /\ gemini.call = "generateFallbackVisualization"
    /\ gemini.pc = "called"
    /\ gemini' = [gemini EXCEPT
                     !.pc = "done",
                     !.outcome =
                         Returned(utilsGenerateFallbackVisualization(gemini.content))]
    /\ UNCHANGED utilsRest

NextFallback == GenerateFallbackReturns

SpecFallback == InitFallback /\ [][NextFallback]_vars

\* the number of characters of s that are of the set
CountOf(s, set) == Cardinality({i \in 1..Len(s) : SubSeq(s, i, i) \in set})

\* C28: the fallback document of generateFallbackVisualization holds the
\* content HTML-escaped: after the opening of the content block come the
\* content with every '<' written &lt; and every '>' written &gt; and then
\* the closing of the block, and the document has as many '<' and '>' as the
\* document built for the same content without its angle brackets.
C28_ContentEscaped ==
    (gemini.call = "generateFallbackVisualization" /\ gemini.pc = "done")
        => LET doc == the(gemini.outcome).value
               block == utilsHead \o escapeAngles(gemini.content)
                            \o utilsAfterContent
               plain == replaceAll(replaceAll(gemini.content, "<", ""), ">", "")
           IN  /\ Len(doc) >= Len(block)
               /\ SubSeq(doc, 1, Len(block)) = block
               /\ CountOf(doc, {"<", ">"})
                      = CountOf(utilsGenerateFallbackVisualization(plain),
                                {"<", ">"})

=============================================================================
